---- MODULE Spec2Model ----
(***************************************************************************)
(* Model of singularity-mcp: the tool dispatcher (server.py) and the       *)
(* normalized client (api.py) of the SingularityApp REST API.              *)
(*                                                                         *)
(* Python values are tagged records, so that isinstance() is a test of     *)
(* the tag: None, str, int, bool, list, dict.  A dict is a function from   *)
(* its keys to values.  Strings the code only forwards are opaque; strings *)
(* the code inspects (project ids: strip, startswith) are sequences of     *)
(* characters; strings the code builds (str(n), ",".join, isoformat) keep  *)
(* what they were built from.                                              *)
(***************************************************************************)
EXTENDS Integers, Sequences, FiniteSets, TLC

VARIABLES
    tzenv,    \* os.environ["SINGULARITY_TIMEZONE_OFFSET"] (PyNone when unset)
    env,      \* os.environ["SINGULARITY_API_TOKEN"] (PyNone when unset)
    api,      \* server._api: PyNone or the client handle
    clock,    \* the host clock: UTC hour count and local offset in hours
    remote,   \* the remote service's tag list of the task
    calls     \* per caller: the call in progress and its bookkeeping

vars == <<tzenv, env, api, clock, remote, calls>>

----------------------------------------------------------------------------
(* Bounds of the model *)

\* longest array a remote response carries
MaxLen == 2
\* calls each caller makes one after the other in SpecTags
MaxOps == 2
\* the clock's hours in SpecClock, counted from 2024-06-14T00:00Z
MaxHour == 47
\* the largest local offset from UTC in SpecClock, in hours either way
MaxOffset == 14

----------------------------------------------------------------------------
(* Python values *)

PyNone == [kind |-> "none"]
PyStr(s) == [kind |-> "str", s |-> s]
PyChars(cs) == [kind |-> "str", chars |-> cs]
PyInt(n) == [kind |-> "int", n |-> n]
PyBool(b) == [kind |-> "bool", b |-> b]
PyList(items) == [kind |-> "list", items |-> items]
PyDict(f) == [kind |-> "dict", fields |-> f]

EmptyMap == [k \in {} |-> PyNone]
EmptyDict == PyDict(EmptyMap)

IsNone(v) == v.kind = "none"
IsDict(v) == v.kind = "dict"
IsList(v) == v.kind = "list"
IsStr(v) == v.kind = "str"

\* bool(v), as `if v:` evaluates it
Truthy(v) ==
    CASE v.kind = "none" -> FALSE
      [] v.kind = "bool" -> v.b
      [] v.kind = "int" -> v.n # 0
      [] v.kind = "list" -> Len(v.items) > 0
      [] v.kind = "dict" -> DOMAIN v.fields # {}
      [] v.kind = "str" ->
            IF "chars" \in DOMAIN v THEN Len(v.chars) > 0
            ELSE IF "s" \in DOMAIN v THEN v.s # ""
            ELSE TRUE

\* d[k] = v on a dict under construction
Put(f, k, v) == [x \in (DOMAIN f) \cup {k} |-> IF x = k THEN v ELSE f[x]]

\* d.get(k) and d.get(k, default) on a mapping
Get(f, k, default) == IF k \in DOMAIN f THEN f[k] ELSE default

\* x in seq
InSeq(x, seq) == \E i \in 1..Len(seq) : seq[i] = x

\* how often x occurs in seq
RECURSIVE Count(_, _)
Count(x, seq) ==
    IF seq = <<>> THEN 0
    ELSE (IF Head(seq) = x THEN 1 ELSE 0) + Count(x, Tail(seq))

\* list.remove(x): drops the first occurrence of x
RECURSIVE ListRemove(_, _)
ListRemove(seq, x) ==
    IF seq = <<>> THEN <<>>
    ELSE IF Head(seq) = x THEN Tail(seq)
    ELSE <<Head(seq)>> \o ListRemove(Tail(seq), x)

\* str.strip() on a string of characters
RECURSIVE LStrip(_)
LStrip(cs) == IF cs # <<>> /\ Head(cs) = " " THEN LStrip(Tail(cs)) ELSE cs

RECURSIVE RStrip(_)
RStrip(cs) ==
    IF cs # <<>> /\ cs[Len(cs)] = " " THEN RStrip(SubSeq(cs, 1, Len(cs) - 1)) ELSE cs

Strip(cs) == RStrip(LStrip(cs))

\* str.startswith(prefix)
StartsWith(cs, prefix) ==
    Len(cs) >= Len(prefix) /\ SubSeq(cs, 1, Len(prefix)) = prefix

\* ",".join(ids)
RECURSIVE JoinComma(_)
JoinComma(ids) ==
    IF ids = <<>> THEN <<>>
    ELSE IF Len(ids) = 1 THEN <<ids[1]>>
    ELSE <<ids[1], ",">> \o JoinComma(Tail(ids))

\* str(b).lower() of a bool
BoolStr(v) == PyStr(IF Truthy(v) THEN "true" ELSE "false")

\* str(n) of an int
IntStr(v) == [kind |-> "str", dec |-> v.n]

----------------------------------------------------------------------------
(* What a step of an operation comes to *)

Ret(v) == [t |-> "return", v |-> v]
\* an exception and str(e), the latter as the parts it is put together from
Raise(exc, msg) == [t |-> "raise", exc |-> exc, msg |-> <<msg>>]
RaiseParts(exc, parts) == [t |-> "raise", exc |-> exc, msg |-> parts]
Request(method, endpoint, params, json) ==
    [t |-> "request", method |-> method, endpoint |-> endpoint,
     params |-> params, json |-> json]

----------------------------------------------------------------------------
(* The remote service's answers *)

\* what the remote's arrays hold: entities, which are also the tag ids
Entities == {"a", "b"}

RECURSIVE SeqsUpTo(_, _)
SeqsUpTo(S, n) ==
    IF n = 0 THEN {<<>>}
    ELSE LET shorter == SeqsUpTo(S, n - 1)
         IN  shorter \cup {Append(q, x) : q \in {r \in shorter : Len(r) = n - 1}, x \in S}

Arrays == SeqsUpTo(Entities, MaxLen)

\* what a field of a response object holds: an array, null or a string
FieldValues == {PyList(A) : A \in Arrays} \cup {PyNone, PyStr("s")}

ResponseKeys == {"tasks", "projects", "tags", "habits"}

\* parsed JSON bodies: an array, a scalar, null, {} or a one-field object
JsonBodies ==
    {PyList(A) : A \in Arrays}
        \cup {PyStr("s"), PyNone, EmptyDict}
        \cup {PyDict([x \in {k} |-> v]) : k \in ResponseKeys, v \in FieldValues}

\* the transport's outcomes: no answer in time, or a status with a body
\* ("nobody" when the answer has no content)
HttpResponses ==
    {[kind |-> "timeout"]}
        \cup {[kind |-> "http", status |-> 500, body |-> [kind |-> "nobody"]]}
        \cup {[kind |-> "http", status |-> 204, body |-> [kind |-> "nobody"]]}
        \cup {[kind |-> "http", status |-> 200, body |-> b] : b \in JsonBodies}

\* SingularityAPI._request, from the transport's outcome on
request_result(http) ==
    IF http.kind = "timeout" THEN Raise("TimeoutException", "timed out")
    ELSE IF http.status >= 400 THEN Raise("HTTPStatusError", "status error")
    ELSE IF http.status = 204 THEN Ret(PyNone)
    ELSE IF http.body.kind = "nobody" THEN Raise("JSONDecodeError", "no json")
    ELSE Ret(http.body)

----------------------------------------------------------------------------
(* The host clock and datetimes, in whole hours *)

HoursPerDay == 24

\* datetime.now(local_tz): the local wall clock, aware of its offset
now_local == [wall |-> clock.utc + clock.off, aware |-> TRUE, off |-> clock.off]

\* dt.replace(hour=0, minute=0, second=0, microsecond=0)
midnight(dt) == [dt EXCEPT !.wall = dt.wall - (dt.wall % HoursPerDay)]

\* dt + timedelta(days=1)
plus_day(dt) == [dt EXCEPT !.wall = dt.wall + HoursPerDay]

\* dt.astimezone(timezone.utc) of an aware datetime
astimezone_utc(dt) == [wall |-> dt.wall - dt.off, aware |-> TRUE, off |-> 0]

\* dt.replace(tzinfo=get_local_timezone()) of a naive datetime
as_local(dt) == [wall |-> dt.wall, aware |-> TRUE, off |-> clock.off]

\* dt.isoformat()
isoformat(dt) == [kind |-> "str", iso |-> dt]

\* date.today().isoformat(): the host's local calendar day
today_iso == [kind |-> "str", day |-> (clock.utc + clock.off) \div HoursPerDay]

\* a variant that takes the start of the day after converting to UTC
get_today_range_utc_of_utc_day ==
    LET today_start_utc == midnight(astimezone_utc(now_local))
    IN  <<today_start_utc, plus_day(today_start_utc)>>

\* get_today_range_utc(): today's local day as a pair of UTC datetimes
get_today_range_utc ==
    LET today_start_local == midnight(now_local)
        tomorrow_start_local == plus_day(today_start_local)
    IN  <<astimezone_utc(today_start_local), astimezone_utc(tomorrow_start_local)>>

----------------------------------------------------------------------------
(* The normalized client, api.py.  An operation is given its keyword       *)
(* arguments kw (a mapping; a parameter left out takes the signature's     *)
(* default), shapes its request, and reconciles what _request returned.    *)

\* the reconciliation of the single-entity operations:
\* `result if isinstance(result, dict) else {}`
entity_or_empty(result) == IF IsDict(result) THEN result ELSE EmptyDict

\* len(x), which the list operations log before they return
HasLen(v) == v.kind \in {"list", "str", "dict"}

\* ============ TASKS ============

\* a variant of list_tasks that sends every filter it was given, empty or not
list_tasks_request_sends_empty(kw) ==
    LET p0 == [k \in {"includeArchived", "includeRemoved", "includeAllRecurrenceInstances"} |->
                 CASE k = "includeArchived" -> BoolStr(Get(kw, "include_archived", PyBool(FALSE)))
                   [] k = "includeRemoved" -> BoolStr(Get(kw, "include_removed", PyBool(FALSE)))
                   [] OTHER -> BoolStr(Get(kw, "include_all_recurrence_instances", PyBool(FALSE)))]
        project_id == Get(kw, "project_id", PyNone)
        tag_ids == Get(kw, "tag_ids", PyNone)
        start_date_from == Get(kw, "start_date_from", PyNone)
        start_date_to == Get(kw, "start_date_to", PyNone)
        max_count == Get(kw, "max_count", PyInt(100))
        p1 == IF ~IsNone(project_id) THEN Put(p0, "projectId", project_id) ELSE p0
        p2 == IF ~IsNone(tag_ids) THEN Put(p1, "tagIds", PyChars(JoinComma(tag_ids.items))) ELSE p1
        p3 == IF ~IsNone(start_date_from) THEN Put(p2, "startDateFrom", start_date_from) ELSE p2
        p4 == IF ~IsNone(start_date_to) THEN Put(p3, "startDateTo", start_date_to) ELSE p3
        p5 == IF ~IsNone(max_count) THEN Put(p4, "maxCount", IntStr(max_count)) ELSE p4
    IN  Request("GET", <<"/task">>, PyDict(p5), PyNone)

\* a variant of list_tasks that sends its three flags only when they are set
list_tasks_request_set_flags_only(kw) ==
    LET flag(p, k, name) == IF Truthy(Get(kw, k, PyBool(FALSE)))
                            THEN Put(p, name, PyStr("true")) ELSE p
        p0 == flag(flag(flag(EmptyMap, "include_archived", "includeArchived"),
                        "include_removed", "includeRemoved"),
                   "include_all_recurrence_instances", "includeAllRecurrenceInstances")
        project_id == Get(kw, "project_id", PyNone)
        tag_ids == Get(kw, "tag_ids", PyNone)
        start_date_from == Get(kw, "start_date_from", PyNone)
        start_date_to == Get(kw, "start_date_to", PyNone)
        max_count == Get(kw, "max_count", PyInt(100))
        p1 == IF Truthy(project_id) THEN Put(p0, "projectId", project_id) ELSE p0
        p2 == IF Truthy(tag_ids) THEN Put(p1, "tagIds", PyChars(JoinComma(tag_ids.items))) ELSE p1
        p3 == IF Truthy(start_date_from) THEN Put(p2, "startDateFrom", start_date_from) ELSE p2
        p4 == IF Truthy(start_date_to) THEN Put(p3, "startDateTo", start_date_to) ELSE p3
        p5 == IF Truthy(max_count) THEN Put(p4, "maxCount", IntStr(max_count)) ELSE p4
    IN  Request("GET", <<"/task">>, PyDict(p5), PyNone)

list_tasks_request(kw) ==
    LET p0 == [k \in {"includeArchived", "includeRemoved", "includeAllRecurrenceInstances"} |->
                 CASE k = "includeArchived" -> BoolStr(Get(kw, "include_archived", PyBool(FALSE)))
                   [] k = "includeRemoved" -> BoolStr(Get(kw, "include_removed", PyBool(FALSE)))
                   [] OTHER -> BoolStr(Get(kw, "include_all_recurrence_instances", PyBool(FALSE)))]
        project_id == Get(kw, "project_id", PyNone)
        tag_ids == Get(kw, "tag_ids", PyNone)
        start_date_from == Get(kw, "start_date_from", PyNone)
        start_date_to == Get(kw, "start_date_to", PyNone)
        max_count == Get(kw, "max_count", PyInt(100))
        p1 == IF Truthy(project_id) THEN Put(p0, "projectId", project_id) ELSE p0
        p2 == IF Truthy(tag_ids) THEN Put(p1, "tagIds", PyChars(JoinComma(tag_ids.items))) ELSE p1
        p3 == IF Truthy(start_date_from) THEN Put(p2, "startDateFrom", start_date_from) ELSE p2
        p4 == IF Truthy(start_date_to) THEN Put(p3, "startDateTo", start_date_to) ELSE p3
        p5 == IF Truthy(max_count) THEN Put(p4, "maxCount", IntStr(max_count)) ELSE p4
    IN  Request("GET", <<"/task">>, PyDict(p5), PyNone)

\* the reconciliation shared by list_tasks and list_projects, which log
\* len() of the named field before returning it
wrapped_list_logged(result, name) ==
    IF IsDict(result) /\ name \in DOMAIN result.fields
    THEN IF HasLen(result.fields[name]) THEN Ret(result.fields[name])
         ELSE Raise("TypeError", "object has no len()")
    ELSE IF IsList(result) THEN Ret(result)
    ELSE Ret(PyList(<<>>))

list_tasks_return(result) == wrapped_list_logged(result, "tasks")

get_task_request(kw) == Request("GET", <<"/task", kw["task_id"]>>, PyNone, PyNone)

get_task_return(result) == Ret(entity_or_empty(result))

\* a variant that attaches whatever project id it is given, unchecked
create_task_data_any_project(kw) ==
    LET start == Get(kw, "start", PyNone)
        note == Get(kw, "note", PyNone)
        project_id == Get(kw, "project_id", PyNone)
        parent == Get(kw, "parent", PyNone)
        d0 == [k \in {"title", "priority"} |->
                 IF k = "title" THEN kw["title"] ELSE Get(kw, "priority", PyInt(1))]
        d1 == IF Truthy(start) THEN Put(d0, "start", start) ELSE d0
        d2 == IF Truthy(note) THEN Put(d1, "note", note) ELSE d1
        d3 == IF Truthy(project_id) THEN Put(d2, "projectId", project_id) ELSE d2
        d4 == IF Truthy(parent) THEN Put(d3, "parent", parent) ELSE d3
    IN  PyDict(d4)

create_task_data(kw) ==
    LET start == Get(kw, "start", PyNone)
        note == Get(kw, "note", PyNone)
        project_id == Get(kw, "project_id", PyNone)
        parent == Get(kw, "parent", PyNone)
        d0 == [k \in {"title", "priority"} |->
                 IF k = "title" THEN kw["title"] ELSE Get(kw, "priority", PyInt(1))]
        d1 == IF Truthy(start) THEN Put(d0, "start", start) ELSE d0
        d2 == IF Truthy(note) THEN Put(d1, "note", note) ELSE d1
        d3 == IF Truthy(project_id) /\ Truthy(PyChars(Strip(project_id.chars)))
              THEN IF ~StartsWith(project_id.chars, <<"P", "-">>) THEN d2
                   ELSE Put(d2, "projectId", project_id)
              ELSE d2
        d4 == IF Truthy(parent) THEN Put(d3, "parent", parent) ELSE d3
    IN  PyDict(d4)

create_task_request(kw) == Request("POST", <<"/task">>, PyNone, create_task_data(kw))

\* result.get('id', ...) is evaluated for the log line before the
\* isinstance test
create_task_return(result) ==
    IF ~IsDict(result) THEN Raise("AttributeError", "object has no attribute 'get'")
    ELSE Ret(entity_or_empty(result))

\* a variant that sends all five fields, null where none was supplied
update_task_data_all_fields(kw) ==
    PyDict([f \in {"title", "start", "note", "priority", "projectId"} |->
              Get(kw, IF f = "projectId" THEN "project_id" ELSE f, PyNone)])

update_task_data(kw) ==
    LET title == Get(kw, "title", PyNone)
        start == Get(kw, "start", PyNone)
        note == Get(kw, "note", PyNone)
        priority == Get(kw, "priority", PyNone)
        project_id == Get(kw, "project_id", PyNone)
        d1 == IF ~IsNone(title) THEN Put(EmptyMap, "title", title) ELSE EmptyMap
        d2 == IF ~IsNone(start) THEN Put(d1, "start", start) ELSE d1
        d3 == IF ~IsNone(note) THEN Put(d2, "note", note) ELSE d2
        d4 == IF ~IsNone(priority) THEN Put(d3, "priority", priority) ELSE d3
        d5 == IF ~IsNone(project_id) THEN Put(d4, "projectId", project_id) ELSE d4
    IN  PyDict(d5)

update_task_request(kw) ==
    Request("PATCH", <<"/task", kw["task_id"]>>, PyNone, update_task_data(kw))

complete_task_request(kw) ==
    Request("PATCH", <<"/task", kw["task_id"]>>, PyNone,
            PyDict([k \in {"journalDate"} |-> today_iso]))

delete_task_request(kw) == Request("DELETE", <<"/task", kw["task_id"]>>, PyNone, PyNone)

\* the operations that return nothing
void_return(result) == Ret(PyNone)

set_task_tags_request(task_id, tag_ids) ==
    Request("PATCH", <<"/task", task_id>>, PyNone, PyDict([k \in {"tags"} |-> tag_ids]))

\* a variant of add_task_tag that puts the new tag first
add_task_tag_after_read_prepends(kw, task) ==
    LET current_tags == Get(task.fields, "tags", PyList(<<>>))
        tag_id == kw["tag_id"]
    IN  IF ~IsList(current_tags) THEN Raise("TypeError", "tags is no list")
        ELSE IF ~InSeq(tag_id.s, current_tags.items)
        THEN set_task_tags_request(kw["task_id"],
                                   PyList(<<tag_id.s>> \o current_tags.items))
        ELSE Ret(task)

\* a variant of add_task_tag that appends without looking for the tag
add_task_tag_after_read_always_appends(kw, task) ==
    LET current_tags == Get(task.fields, "tags", PyList(<<>>))
    IN  IF ~IsList(current_tags) THEN Raise("TypeError", "tags is no list")
        ELSE set_task_tags_request(kw["task_id"],
                                   PyList(Append(current_tags.items, kw["tag_id"].s)))

\* a variant of add_task_tag that writes the new tag alone, dropping what
\* it read
add_task_tag_after_read_drops_read(kw, task) ==
    LET current_tags == Get(task.fields, "tags", PyList(<<>>))
    IN  IF ~IsList(current_tags) THEN Raise("TypeError", "tags is no list")
        ELSE IF ~InSeq(kw["tag_id"].s, current_tags.items)
        THEN set_task_tags_request(kw["task_id"], PyList(<<kw["tag_id"].s>>))
        ELSE Ret(task)

\* add_task_tag after its read: task is what get_task returned.  The
\* outcome is a second request (the replacement), a return or a fault.
add_task_tag_after_read(kw, task) ==
    LET current_tags == Get(task.fields, "tags", PyList(<<>>))
        tag_id == kw["tag_id"]
    IN  IF IsNone(current_tags) THEN Raise("TypeError", "argument of type 'NoneType' is not iterable")
        ELSE IF IsStr(current_tags)
        THEN IF current_tags.s # tag_id.s
             THEN Raise("AttributeError", "'str' object has no attribute 'append'")
             ELSE Ret(task)
        ELSE IF ~InSeq(tag_id.s, current_tags.items)
        THEN set_task_tags_request(kw["task_id"],
                                   PyList(Append(current_tags.items, tag_id.s)))
        ELSE Ret(task)

\* a variant of remove_task_tag that writes the list back whether or not
\* the tag was in it
remove_task_tag_after_read_always_writes(kw, task) ==
    LET current_tags == Get(task.fields, "tags", PyList(<<>>))
    IN  IF ~IsList(current_tags) THEN Raise("TypeError", "tags is no list")
        ELSE set_task_tags_request(kw["task_id"],
                                   PyList(ListRemove(current_tags.items, kw["tag_id"].s)))

\* a variant of remove_task_tag that returns the task without writing
remove_task_tag_after_read_never_writes(kw, task) ==
    LET current_tags == Get(task.fields, "tags", PyList(<<>>))
    IN  IF ~IsList(current_tags) THEN Raise("TypeError", "tags is no list")
        ELSE Ret(task)

\* remove_task_tag after its read
remove_task_tag_after_read(kw, task) ==
    LET current_tags == Get(task.fields, "tags", PyList(<<>>))
        tag_id == kw["tag_id"]
    IN  IF IsNone(current_tags) THEN Raise("TypeError", "argument of type 'NoneType' is not iterable")
        ELSE IF IsStr(current_tags)
        THEN IF current_tags.s = tag_id.s
             THEN Raise("AttributeError", "'str' object has no attribute 'remove'")
             ELSE Ret(task)
        ELSE IF InSeq(tag_id.s, current_tags.items)
        THEN set_task_tags_request(kw["task_id"],
                                   PyList(ListRemove(current_tags.items, tag_id.s)))
        ELSE Ret(task)

\* ============ PROJECTS ============

list_projects_request(kw) ==
    LET p0 == [k \in {"includeArchived", "includeRemoved"} |->
                 IF k = "includeArchived"
                 THEN BoolStr(Get(kw, "include_archived", PyBool(FALSE)))
                 ELSE BoolStr(Get(kw, "include_removed", PyBool(FALSE)))]
        max_count == Get(kw, "max_count", PyInt(100))
        p1 == IF Truthy(max_count) THEN Put(p0, "maxCount", IntStr(max_count)) ELSE p0
    IN  Request("GET", <<"/project">>, PyDict(p1), PyNone)

list_projects_return(result) == wrapped_list_logged(result, "projects")

get_project_request(kw) == Request("GET", <<"/project", kw["project_id"]>>, PyNone, PyNone)

create_project_request(kw) ==
    LET note == Get(kw, "note", PyNone)
        color == Get(kw, "color", PyNone)
        emoji == Get(kw, "emoji", PyNone)
        d0 == [k \in {"title"} |-> kw["title"]]
        d1 == IF Truthy(note) THEN Put(d0, "note", note) ELSE d0
        d2 == IF Truthy(color) THEN Put(d1, "color", color) ELSE d1
        d3 == IF Truthy(emoji) THEN Put(d2, "emoji", emoji) ELSE d2
    IN  Request("POST", <<"/project">>, PyNone, PyDict(d3))

update_project_request(kw) ==
    LET title == Get(kw, "title", PyNone)
        note == Get(kw, "note", PyNone)
        color == Get(kw, "color", PyNone)
        d1 == IF ~IsNone(title) THEN Put(EmptyMap, "title", title) ELSE EmptyMap
        d2 == IF ~IsNone(note) THEN Put(d1, "note", note) ELSE d1
        d3 == IF ~IsNone(color) THEN Put(d2, "color", color) ELSE d2
    IN  Request("PATCH", <<"/project", kw["project_id"]>>, PyNone, PyDict(d3))

delete_project_request(kw) ==
    Request("DELETE", <<"/project", kw["project_id"]>>, PyNone, PyNone)

\* ============ HABITS ============

list_habits_request(kw) ==
    LET max_count == Get(kw, "max_count", PyInt(100))
        p1 == IF Truthy(max_count) THEN Put(EmptyMap, "maxCount", IntStr(max_count))
              ELSE EmptyMap
    IN  Request("GET", <<"/habit">>, PyDict(p1), PyNone)

list_habits_return(result) == Ret(IF IsList(result) THEN result ELSE PyList(<<>>))

create_habit_request(kw) ==
    LET description == Get(kw, "description", PyNone)
        color == Get(kw, "color", PyNone)
        d0 == [k \in {"title"} |-> kw["title"]]
        d1 == IF Truthy(description) THEN Put(d0, "description", description) ELSE d0
        d2 == IF Truthy(color) THEN Put(d1, "color", color) ELSE d1
    IN  Request("POST", <<"/habit">>, PyNone, PyDict(d2))

mark_habit_request(kw) ==
    Request("POST", <<"/habit-progress">>, PyNone,
            PyDict([k \in {"habit", "date", "progress"} |->
                      CASE k = "habit" -> kw["habit_id"]
                        [] k = "date" -> kw["date"]
                        [] OTHER -> Get(kw, "progress", PyInt(2))]))

delete_habit_request(kw) == Request("DELETE", <<"/habit", kw["habit_id"]>>, PyNone, PyNone)

\* ============ TAGS ============

list_tags_request(kw) ==
    LET p0 == [k \in {"includeRemoved"} |-> BoolStr(Get(kw, "include_removed", PyBool(FALSE)))]
        max_count == Get(kw, "max_count", PyInt(100))
        p1 == IF Truthy(max_count) THEN Put(p0, "maxCount", IntStr(max_count)) ELSE p0
    IN  Request("GET", <<"/tag">>, PyDict(p1), PyNone)

list_tags_return(result) ==
    IF IsDict(result) /\ "tags" \in DOMAIN result.fields THEN Ret(result.fields["tags"])
    ELSE IF IsList(result) THEN Ret(result)
    ELSE Ret(PyList(<<>>))

create_tag_request(kw) ==
    LET parent == Get(kw, "parent", PyNone)
        d0 == [k \in {"title"} |-> kw["title"]]
        d1 == IF Truthy(parent) THEN Put(d0, "parent", parent) ELSE d0
    IN  Request("POST", <<"/tag">>, PyNone, PyDict(d1))

get_tag_request(kw) == Request("GET", <<"/tag", kw["tag_id"]>>, PyNone, PyNone)

update_tag_request(kw) ==
    LET title == Get(kw, "title", PyNone)
        d1 == IF ~IsNone(title) THEN Put(EmptyMap, "title", title) ELSE EmptyMap
    IN  Request("PATCH", <<"/tag", kw["tag_id"]>>, PyNone, PyDict(d1))

delete_tag_request(kw) == Request("DELETE", <<"/tag", kw["tag_id"]>>, PyNone, PyNone)

\* ============ CHECKLIST ============

create_checklist_item_request(kw) ==
    Request("POST", <<"/checklist-item">>, PyNone,
            PyDict([k \in {"title", "parent"} |->
                      IF k = "title" THEN kw["title"] ELSE kw["task_id"]]))

----------------------------------------------------------------------------
(* The client's operations by name *)

ListOps == {"list_tasks", "list_projects", "list_tags", "list_habits"}

EntityOps ==
    {"get_task", "create_task", "update_task", "complete_task", "set_task_tags",
     "get_project", "create_project", "update_project", "create_habit", "mark_habit",
     "get_tag", "create_tag", "update_tag", "create_checklist_item"}

VoidOps == {"delete_task", "delete_project", "delete_habit", "delete_tag"}

TagOps == {"add_task_tag", "remove_task_tag"}

ClientOps == ListOps \cup EntityOps \cup VoidOps \cup TagOps

\* the field a list operation looks for in a response object
ListName(op) ==
    CASE op = "list_tasks" -> "tasks"
      [] op = "list_projects" -> "projects"
      [] op = "list_tags" -> "tags"
      [] op = "list_habits" -> "habits"

\* the first request of an operation
client_request(op, kw) ==
    CASE op = "list_tasks" -> list_tasks_request(kw)
      [] op = "get_task" -> get_task_request(kw)
      [] op = "create_task" -> create_task_request(kw)
      [] op = "update_task" -> update_task_request(kw)
      [] op = "complete_task" -> complete_task_request(kw)
      [] op = "delete_task" -> delete_task_request(kw)
      [] op = "set_task_tags" -> set_task_tags_request(kw["task_id"], kw["tag_ids"])
      [] op \in TagOps -> get_task_request(kw)
      [] op = "list_projects" -> list_projects_request(kw)
      [] op = "get_project" -> get_project_request(kw)
      [] op = "create_project" -> create_project_request(kw)
      [] op = "update_project" -> update_project_request(kw)
      [] op = "delete_project" -> delete_project_request(kw)
      [] op = "list_habits" -> list_habits_request(kw)
      [] op = "create_habit" -> create_habit_request(kw)
      [] op = "mark_habit" -> mark_habit_request(kw)
      [] op = "delete_habit" -> delete_habit_request(kw)
      [] op = "list_tags" -> list_tags_request(kw)
      [] op = "create_tag" -> create_tag_request(kw)
      [] op = "get_tag" -> get_tag_request(kw)
      [] op = "update_tag" -> update_tag_request(kw)
      [] op = "delete_tag" -> delete_tag_request(kw)
      [] op = "create_checklist_item" -> create_checklist_item_request(kw)

\* what an operation does with the value _request returned to its
\* step-th request: return, fault, or (the tag operations) a second request
client_resume(op, kw, step, result) ==
    CASE op \in TagOps /\ step = 1 ->
            IF op = "add_task_tag" THEN add_task_tag_after_read(kw, entity_or_empty(result))
            ELSE remove_task_tag_after_read(kw, entity_or_empty(result))
      [] op \in TagOps /\ step = 2 -> Ret(entity_or_empty(result))
      [] op = "list_tasks" -> list_tasks_return(result)
      [] op = "list_projects" -> list_projects_return(result)
      [] op = "list_tags" -> list_tags_return(result)
      [] op = "list_habits" -> list_habits_return(result)
      [] op = "create_task" -> create_task_return(result)
      [] op = "get_task" -> get_task_return(result)
      [] op \in VoidOps -> void_return(result)
      [] OTHER -> Ret(entity_or_empty(result))

----------------------------------------------------------------------------
(* The tool dispatcher, server.py *)

Invoke(op, kw) == [t |-> "invoke", op |-> op, kw |-> kw]

NoToken == PyNone

\* a variant that builds a handle for every call from the environment
get_api_per_call ==
    IF ~Truthy(env)
    THEN Raise("ValueError", "SINGULARITY_API_TOKEN environment variable is required")
    ELSE Ret([kind |-> "api", token |-> env])

\* a variant that builds the handle from whatever the environment holds
get_api_unchecked ==
    IF ~IsNone(api) THEN Ret(api) ELSE Ret([kind |-> "api", token |-> env])

\* get_api: the handle to use, or the configuration fault
get_api ==
    IF ~IsNone(api) THEN Ret(api)
    ELSE IF ~Truthy(env)
         THEN Raise("ValueError", "SINGULARITY_API_TOKEN environment variable is required")
         ELSE Ret([kind |-> "api", token |-> env])

\* KeyError(k), whose str() is the repr of the key
KeyError(k) == RaiseParts("KeyError", <<"'", k, "'">>)

\* args["k"]
Subscript(args, k) == IF k \in DOMAIN args THEN Ret(args[k]) ELSE KeyError(k)

\* s.replace('Z', '+00:00') of a date string
replace_Z(v) ==
    IF "isoz" \in DOMAIN v THEN isoformat([wall |-> v.isoz, aware |-> TRUE, off |-> 0])
    ELSE v

\* datetime.fromisoformat(s), and the strptime fallback, which both
\* reject a string that is no date
fromisoformat(v) ==
    IF "iso" \in DOMAIN v THEN Ret(v.iso)
    ELSE Raise("ValueError", "time data does not match format")

\* a variant that reads a filter without zone as a UTC wall time
date_filter_to_utc_naive_is_utc(v) ==
    IF ~Truthy(v) THEN Ret(v)
    ELSE LET parsed == fromisoformat(replace_Z(v))
         IN  IF parsed.t = "raise" THEN parsed
             ELSE Ret(isoformat([wall |-> parsed.v.wall, aware |-> TRUE, off |-> 0]))

\* the conversion of one date filter of the list_tasks tool
date_filter_to_utc(v) ==
    IF ~Truthy(v) THEN Ret(v)
    ELSE LET parsed == fromisoformat(replace_Z(v))
         IN  IF parsed.t = "raise" THEN parsed
             ELSE LET dt == IF ~parsed.v.aware THEN as_local(parsed.v) ELSE parsed.v
                  IN  Ret(isoformat(astimezone_utc(dt)))

\* a variant that turns an empty project id into the bare prefix
create_task_project_id_bare_prefix(args) ==
    LET project_id == Get(args, "project_id", PyNone)
    IN  IF project_id = PyChars(<<>>) THEN PyChars(<<"P", "-">>) ELSE project_id

\* the create_task tool's project_id: "" is turned into None
create_task_project_id(args) ==
    LET project_id == Get(args, "project_id", PyNone)
    IN  IF project_id = PyChars(<<>>) THEN PyNone ELSE project_id

\* the mark_habit tool's date and progress
mark_habit_date(args) ==
    LET habit_date == Get(args, "date", PyNone)
    IN  IF ~Truthy(habit_date) THEN isoformat(astimezone_utc(midnight(now_local)))
        ELSE habit_date

\* a variant that sends the reset value when done is false
mark_habit_progress_resets(args) ==
    IF Truthy(Get(args, "done", PyBool(TRUE))) THEN PyInt(2) ELSE PyInt(0)

\* progress = 2 if args.get("done", True) else 1
mark_habit_progress(args) ==
    IF Truthy(Get(args, "done", PyBool(TRUE))) THEN PyInt(2) ELSE PyInt(1)

\* a variant that reports an unknown tool without saying which
unknown_tool_unnamed(name) == Raise("ValueError", "Unknown tool")

\* the else branch of _execute_tool: f"Unknown tool: {name}"
unknown_tool(name) == RaiseParts("ValueError", <<"Unknown tool: ", name>>)

\* _execute_tool up to its await: the client operation it invokes with
\* its keyword arguments, or the fault raised before any is invoked
execute_tool(name, args) ==
    LET need(k, then) == IF k \in DOMAIN args THEN then ELSE KeyError(k)
    IN
    CASE name = "list_tasks" ->
            LET from == date_filter_to_utc(Get(args, "start_date_from", PyNone))
                to == date_filter_to_utc(Get(args, "start_date_to", PyNone))
            IN  IF from.t = "raise" THEN from
                ELSE IF to.t = "raise" THEN to
                ELSE Invoke("list_tasks",
                            [project_id |-> Get(args, "project_id", PyNone),
                             include_archived |-> Get(args, "include_archived", PyBool(FALSE)),
                             start_date_from |-> from.v,
                             start_date_to |-> to.v,
                             max_count |-> Get(args, "max_count", PyInt(100))])
      [] name = "get_task" ->
            need("task_id", Invoke("get_task", [task_id |-> args["task_id"]]))
      [] name = "create_task" ->
            need("title",
                 Invoke("create_task",
                        [title |-> args["title"],
                         start |-> Get(args, "start", PyNone),
                         note |-> Get(args, "note", PyNone),
                         priority |-> Get(args, "priority", PyInt(1)),
                         project_id |-> create_task_project_id(args),
                         parent |-> Get(args, "parent", PyNone)]))
      [] name = "update_task" ->
            need("task_id",
                 Invoke("update_task",
                        [task_id |-> args["task_id"],
                         title |-> Get(args, "title", PyNone),
                         start |-> Get(args, "start", PyNone),
                         note |-> Get(args, "note", PyNone),
                         priority |-> Get(args, "priority", PyNone)]))
      [] name = "complete_task" ->
            need("task_id", Invoke("complete_task", [task_id |-> args["task_id"]]))
      [] name = "delete_task" ->
            need("task_id", Invoke("delete_task", [task_id |-> args["task_id"]]))
      [] name = "list_projects" ->
            Invoke("list_projects",
                   [include_archived |-> Get(args, "include_archived", PyBool(FALSE)),
                    max_count |-> Get(args, "max_count", PyInt(100))])
      [] name = "create_project" ->
            need("title",
                 Invoke("create_project",
                        [title |-> args["title"],
                         note |-> Get(args, "note", PyNone),
                         color |-> Get(args, "color", PyNone)]))
      [] name = "delete_project" ->
            need("project_id", Invoke("delete_project", [project_id |-> args["project_id"]]))
      [] name = "list_habits" ->
            Invoke("list_habits", [max_count |-> Get(args, "max_count", PyInt(100))])
      [] name = "create_habit" ->
            need("title",
                 Invoke("create_habit",
                        [title |-> args["title"],
                         description |-> Get(args, "description", PyNone),
                         color |-> Get(args, "color", PyNone)]))
      [] name = "mark_habit" ->
            need("habit_id",
                 Invoke("mark_habit",
                        [habit_id |-> args["habit_id"],
                         date |-> mark_habit_date(args),
                         progress |-> mark_habit_progress(args)]))
      [] name = "list_tags" ->
            Invoke("list_tags", [max_count |-> Get(args, "max_count", PyInt(100))])
      [] name = "create_tag" ->
            need("title",
                 Invoke("create_tag",
                        [title |-> args["title"], parent |-> Get(args, "parent", PyNone)]))
      [] name = "add_checklist_item" ->
            IF "task_id" \notin DOMAIN args THEN KeyError("task_id")
            ELSE need("title",
                      Invoke("create_checklist_item",
                             [task_id |-> args["task_id"], title |-> args["title"]]))
      [] name = "get_today_tasks" ->
            LET range == get_today_range_utc
            IN  Invoke("list_tasks",
                       [start_date_from |-> isoformat(range[1]),
                        start_date_to |-> isoformat(range[2]),
                        include_all_recurrence_instances |-> PyBool(FALSE)])
      [] OTHER -> unknown_tool(name)

\* a variant that hands on what the client operation returned, whatever
\* the tool
execute_tool_return_passes_on(name, args, v) == v

\* _execute_tool after its await: what it returns, given what the client
\* operation returned
execute_tool_return(name, args, v) ==
    CASE name = "delete_task" ->
            PyDict([k \in {"status", "task_id"} |->
                      IF k = "status" THEN PyStr("deleted") ELSE args["task_id"]])
      [] name = "delete_project" ->
            PyDict([k \in {"status", "project_id"} |->
                      IF k = "status" THEN PyStr("deleted") ELSE args["project_id"]])
      [] OTHER -> v

\* call_tool's two results: the JSON text of a value, or the error line
json_text(v) == [form |-> "json", value |-> v]
error_text(e) == [form |-> "error", text |-> <<"Error: ">> \o e.msg]

\* a variant in which the delete tools report the deletion whether or
\* not the client operation raised
call_tool_result_deleted_anyway(name, args, ended) ==
    IF ended.t = "raise" /\ name \notin {"delete_task", "delete_project"}
    THEN error_text(ended)
    ELSE json_text(execute_tool_return(name, args,
                                       IF ended.t = "raise" THEN PyNone ELSE ended.v))

\* a variant of call_tool without its except clause
call_tool_result_no_except(name, args, ended) ==
    IF ended.t = "raise" THEN [form |-> "propagated", exc |-> ended.exc, msg |-> ended.msg]
    ELSE json_text(execute_tool_return(name, args, ended.v))

\* call_tool's result, given how _execute_tool ended
call_tool_result(name, args, ended) ==
    IF ended.t = "raise" THEN error_text(ended)
    ELSE json_text(execute_tool_return(name, args, ended.v))

----------------------------------------------------------------------------
(* The calls the model makes *)

\* the partial argument bags over one key, and their combinations
Opt(k, values) == {EmptyMap} \cup {[x \in {k} |-> v] : v \in values}
Req1(k, values) == {[x \in {k} |-> v] : v \in values}
Both(S, T) == {f @@ g : f \in S, g \in T}

\* project ids as the characters they are written with
ProjectIds ==
    {PyChars(<<>>), PyChars(<<" ">>), PyChars(<<"P", "-">>), PyChars(<<"P", "-", "1">>),
     PyChars(<<"x">>), PyChars(<<" ", "P", "-", "1">>), PyChars(<<"P">>)}

\* date filters: without zone, with an offset, with the Z marker, no date, empty
DateFilters ==
    {isoformat([wall |-> 10, aware |-> FALSE, off |-> 0]),
     isoformat([wall |-> 10, aware |-> TRUE, off |-> 2]),
     [kind |-> "str", isoz |-> 10],
     PyStr("yesterday"),
     PyStr("")}

ToolNames ==
    {"list_tasks", "get_task", "create_task", "update_task", "complete_task", "delete_task",
     "list_projects", "create_project", "delete_project", "list_habits", "create_habit",
     "mark_habit", "list_tags", "create_tag", "add_checklist_item", "get_today_tasks"}

Title == Opt("title", {PyStr("t")})
TaskId == Opt("task_id", {PyStr("T-1"), PyStr("T-2")})
MaxCount == Opt("max_count", {PyInt(0), PyInt(5)})

\* the argument bags tried for each tool name; "no_such_tool" is a name
\* the dispatcher does not map
ToolArgs(name) ==
    CASE name = "list_tasks" ->
            Both(Both(Opt("project_id", {PyChars(<<>>), PyChars(<<"P", "-", "1">>)}),
                      Opt("start_date_from", DateFilters)),
                 {EmptyMap,
                  [x \in {"include_archived"} |-> PyBool(TRUE)],
                  [x \in {"max_count"} |-> PyInt(0)],
                  [x \in {"max_count", "start_date_to"} |->
                     IF x = "max_count" THEN PyInt(5)
                     ELSE isoformat([wall |-> 30, aware |-> FALSE, off |-> 0])]})
      [] name = "create_task" ->
            Both(Both(Title, Opt("project_id", ProjectIds)),
                 {EmptyMap,
                  [x \in {"start"} |-> PyStr("2024-01-01T00:00:00")],
                  [x \in {"note"} |-> PyStr("n")],
                  [x \in {"parent", "priority"} |->
                     IF x = "parent" THEN PyStr("T-0") ELSE PyInt(0)]})
      [] name = "update_task" ->
            Both(Both(TaskId, Opt("title", {PyStr("t"), PyStr(""), PyNone})),
                 Both(Both(Opt("start", {PyStr("2024-01-01T00:00:00")}), Opt("note", {PyStr("n")})),
                      Opt("priority", {PyInt(0)})))
      [] name \in {"get_task", "complete_task", "delete_task"} -> TaskId
      [] name = "list_projects" -> Both(Opt("include_archived", {PyBool(TRUE)}), MaxCount)
      [] name = "create_project" ->
            Both(Title, Both(Opt("note", {PyStr("n")}), Opt("color", {PyStr("#ad1457")})))
      [] name = "delete_project" -> Opt("project_id", {PyChars(<<"P", "-", "1">>)})
      [] name \in {"list_habits", "list_tags"} -> MaxCount
      [] name = "create_habit" ->
            Both(Title, Both(Opt("description", {PyStr("n")}), Opt("color", {PyStr("red")})))
      [] name = "mark_habit" ->
            Both(Opt("habit_id", {PyStr("H-1")}),
                 Both(Opt("date", {PyStr("2024-01-01T00:00:00")}),
                      Opt("done", {PyBool(TRUE), PyBool(FALSE)})))
      [] name = "create_tag" -> Both(Title, Opt("parent", {PyStr("G-0")}))
      [] name = "add_checklist_item" -> Both(TaskId, Title)
      [] OTHER -> {EmptyMap}

TagIds == {PyStr(x) : x \in Entities}

\* the keyword arguments tried for the client operations called directly
\* (as the scripts under tests/ call them)
ClientArgs(op) ==
    CASE op \in TagOps -> Both(Req1("task_id", {PyStr("T-1")}), Req1("tag_id", TagIds))
      [] op = "set_task_tags" ->
            Both(Req1("task_id", {PyStr("T-1")}), Req1("tag_ids", {PyList(A) : A \in Arrays}))
      [] op = "list_tasks" ->
            Both(Opt("tag_ids", {PyList(A) : A \in Arrays}), Opt("max_count", {PyNone}))
      [] op = "create_task" ->
            Both(Req1("title", {PyStr("t")}), Opt("project_id", ProjectIds))
      [] op = "update_task" ->
            Both(Both(Req1("task_id", {PyStr("T-1")}), Opt("title", {PyStr("t")})),
                 Both(Opt("project_id", {PyChars(<<"P", "-", "1">>)}),
                      Opt("priority", {PyInt(0)})))
      [] op \in {"get_task", "complete_task", "delete_task"} -> Req1("task_id", {PyStr("T-1")})
      [] op \in {"list_projects", "list_tags"} ->
            Both(Opt("include_removed", {PyBool(TRUE)}), Opt("max_count", {PyNone}))
      [] op = "list_habits" -> Opt("max_count", {PyNone})
      [] op \in {"get_project", "delete_project"} ->
            Req1("project_id", {PyChars(<<"P", "-", "1">>)})
      [] op = "create_project" -> Both(Req1("title", {PyStr("t")}), Opt("emoji", {PyStr("1f49e")}))
      [] op = "update_project" ->
            Both(Req1("project_id", {PyChars(<<"P", "-", "1">>)}),
                 Both(Opt("title", {PyStr("t")}), Opt("color", {PyStr("#ad1457")})))
      [] op = "create_habit" -> Req1("title", {PyStr("t")})
      [] op = "mark_habit" ->
            Both(Both(Req1("habit_id", {PyStr("H-1")}), Req1("date", {PyStr("2024-01-01T00:00:00")})),
                 Opt("progress", {PyInt(0), PyInt(1)}))
      [] op = "delete_habit" -> Req1("habit_id", {PyStr("H-1")})
      [] op = "create_tag" -> Req1("title", {PyStr("t")})
      [] op \in {"get_tag", "delete_tag"} -> Req1("tag_id", TagIds)
      [] op = "update_tag" -> Both(Req1("tag_id", TagIds), Opt("title", {PyStr("t")}))
      [] op = "create_checklist_item" ->
            Both(Req1("task_id", {PyStr("T-1")}), Req1("title", {PyStr("t")}))

\* the clocks tried: 2024-06-15T10:00 at +3 hours counted from
\* 2024-06-14T00:00Z, and an evening west of Greenwich
Clocks == {[utc |-> 31, off |-> 3], [utc |-> 50, off |-> -5]}

\* a handle a script builds for itself: SingularityAPI(token)
OwnHandle == [kind |-> "api", token |-> PyStr("tok")]

----------------------------------------------------------------------------
(* The state machine: callers start calls, the remote answers them *)

NoOutcome == [form |-> "none"]

IdleCall ==
    [phase |-> "idle", via |-> "none", name |-> "", args |-> EmptyMap,
     handle |-> PyNone, op |-> "", kw |-> EmptyMap, step |-> 0,
     reqs |-> <<>>, resps |-> <<>>, out |-> NoOutcome,
     nops |-> 0, nwrites |-> 0, prev |-> <<>>]

\* a call that has invoked its client operation, which issues its first
\* request (or faults before it does)
Started(call, via, name, args, handle, op, kw) ==
    LET r == client_request(op, kw)
        base == [call EXCEPT !.via = via, !.name = name, !.args = args,
                             !.handle = handle, !.op = op, !.kw = kw,
                             !.resps = <<>>]
    IN  IF r.t = "raise"
        THEN [base EXCEPT !.phase = "done", !.step = 0, !.reqs = <<>>,
                          !.out = IF via = "tool" THEN error_text(r) ELSE r]
        ELSE [base EXCEPT !.phase = "awaiting", !.step = 1, !.reqs = <<r>>,
                          !.out = NoOutcome]

\* a call that ended before any client operation was invoked
EndedEarly(call, name, args, handle, out) ==
    [call EXCEPT !.phase = "done", !.via = "tool", !.name = name, !.args = args,
                 !.handle = handle, !.op = "", !.kw = EmptyMap, !.step = 0,
                 !.reqs = <<>>, !.resps = <<>>, !.out = out]

\* call_tool(name, arguments) up to its first await
CallTool(c, name, args) ==
    /\ calls[c].phase = "idle"
    /\ LET g == get_api
       IN  IF g.t = "raise"
           THEN /\ api' = api
                /\ calls' = [calls EXCEPT ![c] =
                       EndedEarly(@, name, args, PyNone,
                                  [form |-> "propagated", exc |-> g.exc, msg |-> g.msg])]
           ELSE /\ api' = g.v
                /\ LET e == execute_tool(name, args)
                   IN  calls' = [calls EXCEPT ![c] =
                           IF e.t = "raise" THEN EndedEarly(@, name, args, g.v, error_text(e))
                           ELSE Started(@, "tool", name, args, g.v, e.op, e.kw)]
    /\ UNCHANGED <<tzenv, env, clock, remote>>

\* a client operation called directly on a handle of the caller's own
CallClient(c, op, kw) ==
    /\ calls[c].phase = "idle"
    /\ calls' = [calls EXCEPT ![c] = Started(@, "client", op, kw, OwnHandle, op, kw)]
    /\ UNCHANGED <<tzenv, env, api, clock, remote>>

\* a variant in which a tag operation takes a failed read for a task
\* without tags and goes on
Resumed_past_failed_read(call, http) ==
    LET r == request_result(http)
        res == IF r.t = "raise"
               THEN IF call.op \in TagOps /\ call.step = 1
                    THEN client_resume(call.op, call.kw, call.step, EmptyDict)
                    ELSE r
               ELSE client_resume(call.op, call.kw, call.step, r.v)
    IN  IF res.t = "request"
        THEN [call EXCEPT !.step = @ + 1, !.reqs = Append(@, res),
                          !.resps = Append(@, http)]
        ELSE [call EXCEPT !.phase = "done", !.resps = Append(@, http),
                          !.out = IF call.via = "tool"
                                  THEN call_tool_result(call.name, call.args, res)
                                  ELSE res]

\* a variant of the transport that sends a failed request once more
Resumed_retry_once(call, http) ==
    LET r == request_result(http)
        res == IF r.t = "raise" THEN r ELSE client_resume(call.op, call.kw, call.step, r.v)
        last == call.reqs[Len(call.reqs)]
    IN  IF r.t = "raise" /\ Count(last, call.reqs) = 1
        THEN [call EXCEPT !.reqs = Append(@, last), !.resps = Append(@, http)]
        ELSE IF res.t = "request"
        THEN [call EXCEPT !.step = @ + 1, !.reqs = Append(@, res),
                          !.resps = Append(@, http)]
        ELSE [call EXCEPT !.phase = "done", !.resps = Append(@, http),
                          !.out = IF call.via = "tool"
                                  THEN call_tool_result(call.name, call.args, res)
                                  ELSE res]

\* the call after the transport's outcome http for its outstanding request
Resumed(call, http) ==
    LET r == request_result(http)
        res == IF r.t = "raise" THEN r ELSE client_resume(call.op, call.kw, call.step, r.v)
    IN  IF res.t = "request"
        THEN [call EXCEPT !.step = @ + 1, !.reqs = Append(@, res),
                          !.resps = Append(@, http)]
        ELSE [call EXCEPT !.phase = "done", !.resps = Append(@, http),
                          !.out = IF call.via = "tool"
                                  THEN call_tool_result(call.name, call.args, res)
                                  ELSE res]

\* the remote answers the outstanding request of caller c, in any way
Respond(c, http) ==
    /\ calls[c].phase = "awaiting"
    /\ calls' = [calls EXCEPT ![c] = Resumed(@, http)]
    /\ UNCHANGED <<tzenv, env, api, clock, remote>>

\* the caller takes the result of its call; the call's record is dropped
Return(c) ==
    /\ calls[c].phase = "done"
    /\ calls' = [calls EXCEPT ![c] = IdleCall]
    /\ UNCHANGED <<tzenv, env, api, clock, remote>>

\* the callers of Spec: one session, its calls one after the other
Sessions == {1}

Init ==
    /\ tzenv = PyNone
    /\ env \in {NoToken, PyStr(""), PyStr("tok")}
    /\ api = PyNone
    /\ clock \in Clocks
    /\ remote = <<>>
    /\ calls = [c \in Sessions |-> IdleCall]

\* a tool call arrives: any name, mapped or not, with any arguments
ToolCalled(c) ==
    /\ calls[c].phase = "idle"
    /\ \E name \in ToolNames \cup {"no_such_tool"} : \E args \in ToolArgs(name) :
           CallTool(c, name, args)

\* a script calls a client operation
ClientCalled(c) ==
    /\ calls[c].phase = "idle"
    /\ \E op \in ClientOps : \E kw \in ClientArgs(op) : CallClient(c, op, kw)

\* the outstanding request of caller c ends: an answer, or none in time
Responded(c) ==
    /\ calls[c].phase = "awaiting"
    /\ \E http \in HttpResponses : Respond(c, http)

Next ==
    \E c \in Sessions :
        \/ ToolCalled(c)
        \/ ClientCalled(c)
        \/ Responded(c)
        \/ Return(c)

Spec == Init /\ [][Next]_vars

----------------------------------------------------------------------------
(* What the properties below speak of *)

\* the call of caller c
Call(c) == calls[c]

\* the client operation's own outcome: what it returned to a script, or
\* what the dispatcher serialized of it
OpOutcome(k) ==
    IF k.via = "client" THEN k.out
    ELSE IF k.out.form = "json" THEN Ret(k.out.value)
    ELSE [t |-> "raise", text |-> k.out]

\* the i-th answer was a success (2xx) that carried the value v
Answered(k, i, v) ==
    /\ Len(k.resps) >= i
    /\ k.resps[i].kind = "http"
    /\ \/ k.resps[i].status = 200 /\ k.resps[i].body = v
       \/ k.resps[i].status = 204 /\ v = PyNone

\* the value a successful i-th answer carried
Carried(k, i) == IF k.resps[i].status = 204 THEN PyNone ELSE k.resps[i].body

Succeeded(k, i) ==
    /\ Len(k.resps) >= i
    /\ k.resps[i].kind = "http"
    /\ k.resps[i].status \in {200, 204}
    /\ k.resps[i].status = 200 => k.resps[i].body.kind # "nobody"

\* f without the key k
Without(f, k) == [x \in (DOMAIN f) \ {k} |-> f[x]]

----------------------------------------------------------------------------
(* Response reconciliation *)

\* C1: for every list operation, a bare array A and the object
\* {<name>: A} both reconcile to the sequence A.
C1_BareAndWrappedAgree ==
    \A c \in DOMAIN calls :
        LET k == Call(c)
        IN  (k.phase = "done" /\ k.op \in ListOps /\ Succeeded(k, 1)) =>
                LET v == Carried(k, 1)
                    name == ListName(k.op)
                IN  /\ IsList(v) => OpOutcome(k) = Ret(v)
                    /\ (IsDict(v) /\ name \in DOMAIN v.fields /\ IsList(v.fields[name])) =>
                           OpOutcome(k) = Ret(v.fields[name])

\* C2: for every list operation, a response that is neither an array nor
\* an object whose named field holds an array reconciles to the empty
\* sequence, and the operation returns normally.
C2_OtherShapesAreEmpty ==
    \A c \in DOMAIN calls :
        LET k == Call(c)
        IN  (k.phase = "done" /\ k.op \in ListOps /\ Succeeded(k, 1)) =>
                LET v == Carried(k, 1)
                    name == ListName(k.op)
                IN  (/\ ~IsList(v)
                     /\ ~(IsDict(v) /\ name \in DOMAIN v.fields /\ IsList(v.fields[name]))) =>
                        OpOutcome(k) = Ret(PyList(<<>>))

\* C3: for every single-entity operation, a response that is not an
\* object makes the operation return the empty mapping; nothing is raised.
C3_NonObjectIsEmptyMapping ==
    \A c \in DOMAIN calls :
        LET k == Call(c)
        IN  (k.phase = "done" /\ k.op \in EntityOps /\ Succeeded(k, 1)) =>
                (~IsDict(Carried(k, 1)) => OpOutcome(k) = Ret(EmptyDict))

----------------------------------------------------------------------------
(* Request shaping *)

\* the project id the caller of k supplied to create_task
SuppliedProject(k) ==
    IF k.via = "tool" THEN Get(k.args, "project_id", PyNone)
    ELSE Get(k.kw, "project_id", PyNone)

\* non-empty after trimming whitespace, and starting with P-
WellFormedProject(p) ==
    /\ IsStr(p)
    /\ Strip(p.chars) # <<>>
    /\ Len(p.chars) >= 2 /\ p.chars[1] = "P" /\ p.chars[2] = "-"

\* C4: create_task sends exactly one create request; the request carries
\* the project field if and only if the supplied project_id is non-empty
\* after trimming and starts with P-; no project_id makes the call fail
\* (it faults neither before the request nor on an object answer).
C4_ProjectAttachedIffWellFormed ==
    \A c \in DOMAIN calls :
        LET k == Call(c)
        IN  (k.phase # "idle" /\ k.op = "create_task") =>
                /\ Len(k.reqs) = 1
                /\ k.reqs[1].method = "POST"
                /\ k.reqs[1].endpoint = <<"/task">>
                /\ ("projectId" \in DOMAIN k.reqs[1].json.fields)
                       <=> WellFormedProject(SuppliedProject(k))
                /\ "projectId" \in DOMAIN k.reqs[1].json.fields =>
                       k.reqs[1].json.fields["projectId"] = SuppliedProject(k)
                /\ (k.phase = "done" /\ Succeeded(k, 1) /\ IsDict(Carried(k, 1))) =>
                       OpOutcome(k) = Ret(Carried(k, 1))

\* C4 witness: a create_task with an ill-prefixed project id has been
\* answered with an object and has returned it, having sent no project.
C4_Witness ==
    \E c \in DOMAIN calls :
        LET k == Call(c)
        IN  /\ k.phase = "done" /\ k.op = "create_task"
            /\ SuppliedProject(k) = PyChars(<<" ", "P", "-", "1">>)
            /\ Len(k.reqs) = 1
            /\ "projectId" \notin DOMAIN k.reqs[1].json.fields
            /\ Succeeded(k, 1) /\ IsDict(Carried(k, 1))
            /\ OpOutcome(k) = Ret(Carried(k, 1))

\* the call a tool call comes to when the answers https arrive one by one
ToolStart(name, args, handle) ==
    LET e == execute_tool(name, args)
    IN  IF e.t = "raise" THEN EndedEarly(IdleCall, name, args, handle, error_text(e))
        ELSE Started(IdleCall, "tool", name, args, handle, e.op, e.kw)

RECURSIVE Replay(_, _)
Replay(call, https) ==
    IF https = <<>> \/ call.phase # "awaiting" THEN call
    ELSE Replay(Resumed(call, Head(https)), Tail(https))

\* C5: the create_task tool called with project_id = "" sends the same
\* request and yields the same result as the same call without
\* project_id, and it does not fail on an object answer.
C5_EmptyProjectIsNoProject ==
    \A c \in DOMAIN calls :
        LET k == Call(c)
        IN  (/\ k.phase # "idle" /\ k.via = "tool" /\ k.name = "create_task"
             /\ ~IsNone(k.handle)
             /\ Get(k.args, "project_id", PyNone) = PyChars(<<>>)) =>
                LET other == Replay(ToolStart(k.name, Without(k.args, "project_id"), k.handle),
                                    k.resps)
                IN  /\ other.phase = k.phase
                    /\ other.reqs = k.reqs
                    /\ other.out = k.out
                    /\ (k.phase = "done" /\ Succeeded(k, 1) /\ IsDict(Carried(k, 1))) =>
                           k.out = json_text(Carried(k, 1))

\* C5 witness: a create_task tool call with project_id = "" and a title
\* has been answered with an object and has returned its JSON text.
C5_Witness ==
    \E c \in DOMAIN calls :
        LET k == Call(c)
        IN  /\ k.phase = "done" /\ k.via = "tool" /\ k.name = "create_task"
            /\ Get(k.args, "project_id", PyNone) = PyChars(<<>>)
            /\ "title" \in DOMAIN k.args
            /\ Len(k.reqs) = 1
            /\ k.out.form = "json" /\ IsDict(k.out.value)

\* the fields of an update the caller of k supplied, by their names in
\* the request body
SuppliedUpdate(k) ==
    LET given == IF k.via = "tool" THEN k.args ELSE k.kw
        keys == {x \in DOMAIN given :
                   /\ x \in {"title", "start", "note", "priority", "project_id"}
                   /\ ~IsNone(given[x])}
    IN  [y \in {IF x = "project_id" THEN "projectId" ELSE x : x \in keys} |->
           IF y = "projectId" THEN given["project_id"] ELSE given[y]]

\* C10: update_task sends a body holding exactly the fields the caller
\* supplied, with the values supplied; no other field is sent, none as null.
C10_UpdateSendsSuppliedFieldsOnly ==
    \A c \in DOMAIN calls :
        LET k == Call(c)
        IN  (k.phase # "idle" /\ k.op = "update_task") =>
                /\ Len(k.reqs) = 1
                /\ k.reqs[1].method = "PATCH"
                /\ k.reqs[1].json = PyDict(SuppliedUpdate(k))
                /\ \A f \in DOMAIN k.reqs[1].json.fields : ~IsNone(k.reqs[1].json.fields[f])

\* C10 witness: the update_task tool, called with a task id and a title
\* only, has sent a body that holds the title and nothing else.
C10_Witness ==
    \E c \in DOMAIN calls :
        LET k == Call(c)
        IN  /\ k.phase = "awaiting" /\ k.via = "tool" /\ k.name = "update_task"
            /\ DOMAIN k.args = {"task_id", "title"}
            /\ k.reqs = <<Request("PATCH", <<"/task", PyStr("T-1")>>, PyNone,
                                  PyDict([x \in {"title"} |-> k.args["title"]]))>>
            /\ ~IsNone(k.args["title"])

----------------------------------------------------------------------------
(* The tag operations and the requests a call issues *)

\* what get_task made of the first answer of k
TaskRead(k) == IF IsDict(Carried(k, 1)) THEN Carried(k, 1) ELSE EmptyDict

\* the tag list of a task as read; a task without the field has none
TagsRead(k) == Get(TaskRead(k).fields, "tags", PyList(<<>>))

\* C7: remove_task_tag with a tag that is not in the tag set read issues
\* the one read and no write, and returns the task as read.
C7_RemoveAbsentTagIsNoOp ==
    \A c \in DOMAIN calls :
        LET k == Call(c)
        IN  (/\ k.op = "remove_task_tag" /\ Succeeded(k, 1)
             /\ IsList(TagsRead(k))
             /\ ~InSeq(k.kw["tag_id"].s, TagsRead(k).items)) =>
                /\ k.phase = "done"
                /\ k.reqs = <<Request("GET", <<"/task", k.kw["task_id"]>>, PyNone, PyNone)>>
                /\ k.out = Ret(TaskRead(k))

\* C7 witness: remove_task_tag of tag b has read a task tagged a only and
\* has returned it.
C7_Witness ==
    \E c \in DOMAIN calls :
        LET k == Call(c)
        IN  /\ k.phase = "done" /\ k.op = "remove_task_tag"
            /\ k.kw["tag_id"] = PyStr("b")
            /\ Answered(k, 1, PyDict([x \in {"tags"} |-> PyList(<<"a">>)]))
            /\ Len(k.reqs) = 1
            /\ k.out = Ret(PyDict([x \in {"tags"} |-> PyList(<<"a">>)]))

\* the arguments each tool's schema requires
RequiredArgs(name) ==
    CASE name \in {"get_task", "update_task", "complete_task", "delete_task"} -> {"task_id"}
      [] name \in {"create_task", "create_project", "create_habit", "create_tag"} -> {"title"}
      [] name = "delete_project" -> {"project_id"}
      [] name = "mark_habit" -> {"habit_id"}
      [] name = "add_checklist_item" -> {"task_id", "title"}
      [] OTHER -> {}

\* a date filter the list_tasks tool can convert
DateOk(v) == ~Truthy(v) \/ "iso" \in DOMAIN v \/ "isoz" \in DOMAIN v

\* a tool call that gets as far as its client operation: the credential
\* is there, the name is mapped, the required arguments are present and
\* the date filters are dates
Dispatched(k) ==
    /\ ~IsNone(k.handle)
    /\ k.name \in ToolNames
    /\ RequiredArgs(k.name) \subseteq DOMAIN k.args
    /\ k.name = "list_tasks" =>
           /\ DateOk(Get(k.args, "start_date_from", PyNone))
           /\ DateOk(Get(k.args, "start_date_to", PyNone))

\* the requests of one call: at most two, one at a time, the read of a
\* tag operation before its write, the write only when the set changes,
\* one request for every other operation that is invoked
RequestDiscipline(k) ==
    /\ Len(k.reqs) <= 2
    /\ Len(k.reqs) - Len(k.resps) = (IF k.phase = "awaiting" THEN 1 ELSE 0)
    /\ (k.phase # "idle" /\ k.op # "") => Len(k.reqs) >= 1
    /\ (k.op # "" /\ k.op \notin TagOps) => Len(k.reqs) = 1
    /\ (k.via = "tool" /\ k.name = "get_today_tasks" /\ k.op # "") =>
           /\ k.op = "list_tasks"
           /\ Len(k.reqs) = 1 /\ k.reqs[1].method = "GET"
    /\ k.op \in TagOps =>
           /\ k.reqs[1].method = "GET"
           /\ Len(k.reqs) = 2 =>
                  /\ Succeeded(k, 1)
                  /\ k.reqs[2].method = "PATCH"
                  /\ k.reqs[2].endpoint = k.reqs[1].endpoint
                  /\ InSeq(k.kw["tag_id"].s, TagsRead(k).items) <=> (k.op = "remove_task_tag")
           /\ (k.phase = "done" /\ k.out.t = "return" /\ Len(k.reqs) = 1) =>
                  (IsList(TagsRead(k)) =>
                       (InSeq(k.kw["tag_id"].s, TagsRead(k).items) <=> (k.op = "add_task_tag")))

\* C9 as stated: every tool call invokes exactly one client operation, and
\* every operation keeps the request discipline.
C9_EveryToolCallInvokesOneOperation ==
    \A c \in DOMAIN calls :
        LET k == Call(c)
        IN  /\ RequestDiscipline(k)
            /\ (k.phase = "done" /\ k.via = "tool") => k.op # ""

\* C9 as amended: a tool call invokes one client operation exactly when
\* it is dispatched (credential present, name mapped, required arguments
\* present, date filters convertible) and none, with no request,
\* otherwise; every operation invoked keeps the request discipline.
C9_DispatchedToolCallInvokesOneOperation ==
    \A c \in DOMAIN calls :
        LET k == Call(c)
        IN  /\ RequestDiscipline(k)
            /\ (k.phase # "idle" /\ k.via = "tool") =>
                   /\ (k.op # "") <=> Dispatched(k)
                   /\ k.op = "" => (k.reqs = <<>> /\ k.out.form \in {"error", "propagated"})

\* C9 witness: an add_task_tag that found the tag missing has its write
\* outstanding after its read was answered.
C9_Witness ==
    \E c \in DOMAIN calls :
        LET k == Call(c)
        IN  /\ k.phase = "awaiting" /\ k.op = "add_task_tag"
            /\ Len(k.reqs) = 2 /\ Len(k.resps) = 1
            /\ k.reqs[2].method = "PATCH"
            /\ k.reqs[2].json = PyDict([x \in {"tags"} |-> PyList(<<"a", "b">>)])

----------------------------------------------------------------------------
(* The tag operations against a remote that keeps the task's tag list:    *)
(* callers run add_task_tag and remove_task_tag on the same task, each a  *)
(* read followed, when the set changes, by a full replacement.            *)

Callers == {1, 2}

TheTask == PyStr("T-1")

\* the task as the remote reports it
RemoteTask(tags) ==
    PyDict([x \in {"id", "tags"} |-> IF x = "id" THEN TheTask ELSE PyList(tags)])

\* what is kept of a call once the caller has taken its result: the
\* operation, its tag, whether it returned, the tag list of the task it
\* returned, and whether it issued a write
Summary(k) ==
    [op |-> k.op, tag |-> k.kw["tag_id"], returned |-> k.out.t = "return",
     tags |-> IF k.out.t = "return" THEN Get(k.out.v.fields, "tags", PyList(<<>>)).items
              ELSE <<>>,
     wrote |-> Len(k.reqs) = 2]

\* the calls a caller makes one after the other: the first caller a
\* sequence of them, every other caller one, concurrent with them
OpsOf(c) == IF c = 1 THEN MaxOps ELSE 1

\* a caller starts add_task_tag or remove_task_tag on the task
TagCall(c, op, tag) ==
    /\ calls[c].phase = "idle"
    /\ calls[c].nops < OpsOf(c)
    /\ calls' = [calls EXCEPT ![c] =
           Started(@, "client", op, [task_id |-> TheTask, tag_id |-> tag],
                   OwnHandle, op, [task_id |-> TheTask, tag_id |-> tag])]
    /\ UNCHANGED <<tzenv, env, api, clock, remote>>

\* the remote serves the outstanding request of caller c: a GET reads the
\* tag list, a PATCH replaces it and reports the task as updated
RemoteAnswers(c) ==
    /\ calls[c].phase = "awaiting"
    /\ LET k == calls[c]
           req == k.reqs[Len(k.reqs)]
           tags == IF req.method = "PATCH" THEN req.json.fields["tags"].items ELSE remote
       IN  /\ remote' = tags
           /\ calls' = [calls EXCEPT ![c] =
                  Resumed(@, [kind |-> "http", status |-> 200, body |-> RemoteTask(tags)])]
    /\ UNCHANGED <<tzenv, env, api, clock>>

\* the transport's failures
FailureResponses == {h \in HttpResponses : IF h.kind = "timeout" THEN TRUE ELSE h.status >= 400}

\* the outstanding request of caller c fails: no answer in time, or an
\* error status; the tag list stays as it is
RemoteFails(c) ==
    /\ calls[c].phase = "awaiting"
    /\ \E http \in FailureResponses : calls' = [calls EXCEPT ![c] = Resumed(@, http)]
    /\ UNCHANGED <<tzenv, env, api, clock, remote>>

\* the caller takes the result; a summary of this last call is kept, and
\* the count of the writes the caller has issued
ReturnTags(c) ==
    /\ calls[c].phase = "done"
    /\ calls' = [calls EXCEPT ![c] =
           [IdleCall EXCEPT !.nops = calls[c].nops + 1,
                            !.nwrites = calls[c].nwrites + Len(calls[c].reqs) - 1,
                            !.prev = <<Summary(calls[c])>>]]
    /\ UNCHANGED <<tzenv, env, api, clock, remote>>

\* tag lists that list no tag twice
TagLists == {A \in Arrays : \A x \in Entities : Count(x, A) <= 1}

InitTags ==
    /\ tzenv = PyNone
    /\ env = PyStr("tok")
    /\ api = PyNone
    /\ clock = [utc |-> 31, off |-> 3]
    /\ remote \in TagLists
    /\ calls = [c \in Callers |-> IdleCall]

NextTags ==
    \E c \in Callers :
        \/ \E op \in TagOps : \E tag \in TagIds : TagCall(c, op, tag)
        \/ RemoteAnswers(c)
        \/ RemoteFails(c)
        \/ ReturnTags(c)

SpecTags == InitTags /\ [][NextTags]_vars

\* no caller but c has issued a write
NoOtherWriter(c) ==
    \A d \in DOMAIN calls : d # c => (calls[d].nwrites = 0 /\ Len(calls[d].reqs) < 2)

\* the tag list of the task a finished call returned
ReturnedTags(k) == Get(k.out.v.fields, "tags", PyList(<<>>)).items

\* C6: add_task_tag called twice in a row with the same task and tag, no
\* other writer: the remote tag list holds the tag once, the task either
\* call returned holds it once, and the second call issues no write.
C6_AddTwiceIsIdempotent ==
    \A c \in DOMAIN calls :
        LET k == Call(c)
        IN  (/\ k.phase = "done" /\ k.op = "add_task_tag" /\ k.out.t = "return"
             /\ k.prev # <<>>
             /\ k.prev[1].op = "add_task_tag" /\ k.prev[1].tag = k.kw["tag_id"]
             /\ k.prev[1].returned
             /\ NoOtherWriter(c)) =>
                /\ Count(k.kw["tag_id"].s, remote) = 1
                /\ Count(k.kw["tag_id"].s, k.prev[1].tags) = 1
                /\ Count(k.kw["tag_id"].s, ReturnedTags(k)) = 1
                /\ Len(k.reqs) = 1 /\ k.reqs[1].method = "GET"

\* C6 witness: the first add of tag a wrote it, the second add of tag a
\* has returned, and nobody else has written.
C6_Witness ==
    \E c \in DOMAIN calls :
        LET k == Call(c)
        IN  /\ k.phase = "done" /\ k.op = "add_task_tag" /\ k.out.t = "return"
            /\ k.kw["tag_id"] = PyStr("a")
            /\ k.prev # <<>>
            /\ k.prev[1].op = "add_task_tag" /\ k.prev[1].tag = PyStr("a")
            /\ k.prev[1].returned /\ k.prev[1].wrote
            /\ NoOtherWriter(c)
            /\ remote = <<"b", "a">>

\* C8: the tag operations replace the whole list by what they read, with
\* the tag added or dropped, whatever the remote holds by then; so the tag
\* of an add that wrote and returned is missing from the remote only when
\* another caller has written.  (That it does go missing is the witness.)
C8_WriteReplacesWithOwnRead ==
    \A c \in DOMAIN calls :
        LET k == Call(c)
        IN  /\ (k.op \in TagOps /\ Len(k.reqs) = 2) =>
                   k.reqs[2].json.fields["tags"].items =
                       IF k.op = "add_task_tag"
                       THEN TagsRead(k).items \o <<k.kw["tag_id"].s>>
                       ELSE ListRemove(TagsRead(k).items, k.kw["tag_id"].s)
            /\ (/\ k.phase = "done" /\ k.op = "add_task_tag" /\ k.out.t = "return"
                /\ Len(k.reqs) = 2) =>
                   /\ InSeq(k.kw["tag_id"].s, ReturnedTags(k))
                   /\ ~InSeq(k.kw["tag_id"].s, remote) => ~NoOtherWriter(c)

\* C8 witness (the lost update): two callers have each added a tag of
\* their own, both calls wrote and returned, and the remote tag list
\* lacks one of the two tags.
C8_LostUpdate ==
    \E c \in DOMAIN calls : \E d \in DOMAIN calls :
        LET k == Call(c)
            j == Call(d)
        IN  /\ c # d
            /\ k.phase = "done" /\ k.op = "add_task_tag" /\ k.out.t = "return"
            /\ j.phase = "done" /\ j.op = "add_task_tag" /\ j.out.t = "return"
            /\ k.nops = 0 /\ j.nops = 0
            /\ Len(k.reqs) = 2 /\ Len(j.reqs) = 2
            /\ k.kw["tag_id"] # j.kw["tag_id"]
            /\ InSeq(k.kw["tag_id"].s, ReturnedTags(k))
            /\ InSeq(j.kw["tag_id"].s, ReturnedTags(j))
            /\ ~InSeq(k.kw["tag_id"].s, remote)
            /\ InSeq(j.kw["tag_id"].s, remote)

----------------------------------------------------------------------------
(* The dispatcher's results *)

\* a tool call of caller c that has begun
ToolCallOf(c) == calls[c].via = "tool" /\ calls[c].phase # "idle"

\* the error line of a call's result holds the text part x
ErrorNames(k, x) == k.out.form = "error" /\ InSeq(x, k.out.text)

\* C11: a delete_task tool call that succeeds returns
\* {"status": "deleted", "task_id": X} with X the caller's id, after exactly
\* one DELETE for X; the client operation itself returns nothing.
C11_DeleteTaskReportsDeleted ==
    \A c \in DOMAIN calls :
        LET k == Call(c)
        IN  /\ (ToolCallOf(c) /\ k.name = "delete_task" /\ k.phase = "done"
                /\ k.out.form = "json") =>
                   /\ k.out.value =
                          PyDict([f \in {"status", "task_id"} |->
                                    IF f = "status" THEN PyStr("deleted") ELSE k.args["task_id"]])
                   /\ Len(k.reqs) = 1
                   /\ k.reqs[1] = Request("DELETE", <<"/task", k.args["task_id"]>>, PyNone, PyNone)
                   /\ Succeeded(k, 1)
            /\ (k.via = "client" /\ k.op = "delete_task" /\ k.phase = "done"
                /\ k.out.t = "return") =>
                   /\ k.out.v = PyNone
                   /\ Len(k.reqs) = 1 /\ k.reqs[1].method = "DELETE"

\* C11 witness: the tool has deleted T-2, answered with a body it drops.
C11_Witness ==
    \E c \in DOMAIN calls :
        LET k == Call(c)
        IN  /\ ToolCallOf(c) /\ k.name = "delete_task" /\ k.phase = "done"
            /\ k.out.form = "json"
            /\ k.args["task_id"] = PyStr("T-2")
            /\ k.resps = <<[kind |-> "http", status |-> 200, body |-> PyList(<<"a">>)]>>
            /\ k.out.value.fields["task_id"] = PyStr("T-2")

\* C12 as stated: a tool call with a name the dispatcher does not map
\* returns an error result whose text holds the name, issues no request
\* and does not raise.
C12_UnknownToolIsNamedInError ==
    \A c \in DOMAIN calls :
        LET k == Call(c)
        IN  (ToolCallOf(c) /\ k.name \notin ToolNames) =>
                /\ k.phase = "done"
                /\ ErrorNames(k, k.name)
                /\ k.reqs = <<>>

\* C12, amended: the same while the credential is present.
C12_UnknownToolIsNamedInErrorWithCredential ==
    \A c \in DOMAIN calls :
        LET k == Call(c)
        IN  (ToolCallOf(c) /\ k.name \notin ToolNames /\ Truthy(env)) =>
                /\ k.phase = "done"
                /\ ErrorNames(k, k.name)
                /\ k.out.text = <<"Error: ", "Unknown tool: ", k.name>>
                /\ k.reqs = <<>> /\ k.op = ""

\* C12 witness: with the credential present, the call of no_such_tool has
\* ended in its error line.
C12_Witness ==
    \E c \in DOMAIN calls :
        LET k == Call(c)
        IN  /\ ToolCallOf(c) /\ k.name = "no_such_tool" /\ Truthy(env)
            /\ k.phase = "done" /\ k.out.form = "error"

\* C13: a tool call that omits an argument its operation requires returns
\* an error result prefixed "Error: " and issues no request.
C13_MissingArgumentIsErrorResult ==
    \A c \in DOMAIN calls :
        LET k == Call(c)
        IN  (ToolCallOf(c) /\ k.name \in ToolNames
             /\ ~(RequiredArgs(k.name) \subseteq DOMAIN k.args)) =>
                /\ k.phase = "done"
                /\ k.out.form = "error" /\ Head(k.out.text) = "Error: "
                /\ k.reqs = <<>>

\* C13 where it does hold: with the credential present the missing key is
\* reported in the error line and nothing is requested.
C13_WithCredential ==
    \A c \in DOMAIN calls :
        LET k == Call(c)
        IN  (ToolCallOf(c) /\ k.name \in ToolNames /\ Truthy(env)
             /\ ~(RequiredArgs(k.name) \subseteq DOMAIN k.args)) =>
                /\ k.phase = "done"
                /\ k.out.form = "error" /\ Head(k.out.text) = "Error: "
                /\ \E a \in RequiredArgs(k.name) \ DOMAIN k.args : InSeq(a, k.out.text)
                /\ k.reqs = <<>> /\ k.op = ""

\* C14: every tool call, whatever the state, the name and the arguments,
\* ends by returning a text result; nothing propagates out of call_tool.
C14_EveryToolCallReturnsText ==
    \A c \in DOMAIN calls :
        LET k == Call(c)
        IN  (ToolCallOf(c) /\ k.phase = "done") => k.out.form \in {"json", "error"}

\* how the client operation of a tool call ended, as a script calling the
\* operation with the same arguments and answers would see it
OperationEnded(k) ==
    IF k.op = "" THEN execute_tool(k.name, k.args)
    ELSE Replay(Started(IdleCall, "client", k.op, k.kw, OwnHandle, k.op, k.kw), k.resps).out

\* the one text item call_tool owes for an operation that ended as e did
OwedText(k, e) ==
    IF e.t = "raise" THEN [form |-> "error", text |-> <<"Error: ">> \o e.msg]
    ELSE [form |-> "json", value |-> IF k.name \in {"delete_task", "delete_project"}
                                     THEN execute_tool_return(k.name, k.args, e.v)
                                     ELSE e.v]

\* C15: the outcome of call_tool is exactly one text item: the JSON text of
\* the value when the operation returns one, "Error: " and the failure's
\* message when it raises; never a mixture.
C15_OutcomeIsOneTextItem ==
    \A c \in DOMAIN calls :
        LET k == Call(c)
        IN  (ToolCallOf(c) /\ k.phase = "done") =>
                /\ k.out.form \in {"json", "error"}
                /\ k.out = OwedText(k, OperationEnded(k))

\* C15 where it does hold: once call_tool has its client handle, the
\* outcome is the one text item owed.
C15_WithCredential ==
    \A c \in DOMAIN calls :
        LET k == Call(c)
        IN  (ToolCallOf(c) /\ k.phase = "done" /\ ~IsNone(k.handle)) =>
                /\ k.out.form \in {"json", "error"}
                /\ DOMAIN k.out = (IF k.out.form = "json" THEN {"form", "value"}
                                   ELSE {"form", "text"})
                /\ k.out = OwedText(k, OperationEnded(k))

\* the configuration error of get_api, as it leaves call_tool
ConfigurationError ==
    [form |-> "propagated", exc |-> "ValueError",
     msg |-> <<"SINGULARITY_API_TOKEN environment variable is required">>]

\* C16: while the credential is absent or empty, every tool call fails
\* with the configuration error before any client operation is invoked:
\* no client handle is created and no request is issued.
C16_NoCredentialFailsFast ==
    ~Truthy(env) =>
        /\ api = PyNone
        /\ \A c \in DOMAIN calls :
               LET k == Call(c)
               IN  ToolCallOf(c) =>
                       /\ k.phase = "done"
                       /\ k.out = ConfigurationError
                       /\ k.op = "" /\ k.reqs = <<>> /\ IsNone(k.handle)

\* C16 witness: the credential is the empty string and a create_task call
\* with its title has ended in the configuration error.
C16_Witness ==
    /\ env = PyStr("")
    /\ \E c \in DOMAIN calls :
           LET k == Call(c)
           IN  /\ ToolCallOf(c) /\ k.name = "create_task" /\ "title" \in DOMAIN k.args
               /\ k.phase = "done" /\ k.out = ConfigurationError

----------------------------------------------------------------------------
(* SpecServe: one session's tool calls one after the other, each call      *)
(* remembering whether the call before it failed at the transport.         *)

\* the last request of call k failed: no answer in time, or an error status
TransportFailed(k) ==
    /\ k.resps # <<>>
    /\ k.resps[Len(k.resps)] \in FailureResponses

\* the caller takes the result; the next call knows how this one ended
ReturnServe(c) ==
    /\ calls[c].phase = "done"
    /\ calls' = [calls EXCEPT ![c] =
           [IdleCall EXCEPT !.prev = <<[failed |-> TransportFailed(calls[c])]>>]]
    /\ UNCHANGED <<tzenv, env, api, clock, remote>>

NextServe ==
    \E c \in Sessions :
        \/ ToolCalled(c)
        \/ Responded(c)
        \/ ReturnServe(c)

SpecServe == Init /\ [][NextServe]_vars

\* the handle get_api builds in a process that has none yet
FreshHandle == [kind |-> "api", token |-> env]

\* C17: a tool call whose request fails returns an error result, and the
\* client handle is left as it was; a tool call made after a failed one
\* runs exactly as the same call with the same answers runs in a process
\* where no call failed.
C17_FailureLeavesNoTrace ==
    \A c \in DOMAIN calls :
        LET k == Call(c)
        IN  /\ (ToolCallOf(c) /\ TransportFailed(k)) =>
                   /\ k.phase = "done"
                   /\ k.out.form = "error" /\ Head(k.out.text) = "Error: "
                   /\ api = k.handle /\ api = FreshHandle
            /\ (ToolCallOf(c) /\ k.prev = <<[failed |-> TRUE]>>) =>
                   /\ api = FreshHandle
                   /\ [k EXCEPT !.prev = <<>>] =
                          Replay(ToolStart(k.name, k.args, FreshHandle), k.resps)

\* C17 witness: the call before failed at the transport, and this
\* get_task call has been answered with the task and returned it.
C17_Witness ==
    \E c \in DOMAIN calls :
        LET k == Call(c)
        IN  /\ ToolCallOf(c) /\ k.prev = <<[failed |-> TRUE]>>
            /\ k.name = "get_task" /\ k.phase = "done"
            /\ k.out = json_text(EmptyDict)

----------------------------------------------------------------------------
(* The transport *)

\* call k has ended in a failure
EndedInFailure(k) ==
    /\ k.phase = "done"
    /\ IF k.via = "tool" THEN k.out.form = "error" ELSE k.out.t = "raise"

\* C18: no automatic retry.  A request that times out or fails is the last
\* request of its call, which ends in a failure; no request is issued
\* twice within a call, and a failing call issues no more requests than
\* its operation issues when it succeeds.
C18_NoRetry ==
    \A c \in DOMAIN calls :
        LET k == Call(c)
        IN  k.phase # "idle" =>
                /\ \A i \in 1..Len(k.resps) :
                       k.resps[i] \in FailureResponses =>
                           /\ i = Len(k.reqs)
                           /\ EndedInFailure(k)
                /\ \A i \in 1..Len(k.reqs) : Count(k.reqs[i], k.reqs) = 1
                /\ Len(k.reqs) <= (IF k.op \in TagOps THEN 2 ELSE 1)

\* C18 witness: the only request of a list_tasks tool call got no answer
\* in time, and the call has ended in its error line.
C18_Witness ==
    \E c \in DOMAIN calls :
        LET k == Call(c)
        IN  /\ ToolCallOf(c) /\ k.name = "list_tasks"
            /\ k.resps = <<[kind |-> "timeout"]>>
            /\ Len(k.reqs) = 1
            /\ k.phase = "done" /\ k.out.form = "error"

----------------------------------------------------------------------------
(* SpecClock: the get_today_tasks tool at every hour of two days and under *)
(* every whole-hour offset.  Hour h is 2024-06-14T00:00Z plus h hours.     *)
(* The range is derived when the call starts, so the clock stands still    *)
(* while a call is under way.                                              *)

InitClock ==
    /\ tzenv = PyNone
    /\ env = PyStr("tok")
    /\ api = PyNone
    /\ clock \in [utc : 0..MaxHour, off : (0 - MaxOffset)..MaxOffset]
    /\ remote = <<>>
    /\ calls = [c \in Sessions |-> IdleCall]

\* an hour passes between calls
Tick(c) ==
    /\ calls[c].phase = "idle"
    /\ clock.utc < MaxHour
    /\ clock' = [clock EXCEPT !.utc = @ + 1]
    /\ UNCHANGED <<tzenv, env, api, remote, calls>>

\* the get_today_tasks tool is called; it takes no arguments
TodayCalled(c) == CallTool(c, "get_today_tasks", EmptyMap)

NextClock ==
    \E c \in Sessions :
        \/ Tick(c)
        \/ TodayCalled(c)
        \/ Responded(c)
        \/ Return(c)

SpecClock == InitClock /\ [][NextClock]_vars

\* the parameters of the first request of call k
Params(k) == k.reqs[1].params.fields

\* a get_today_tasks call of caller c that has begun
TodayCallOf(c) == ToolCallOf(c) /\ calls[c].name = "get_today_tasks"

\* C19: the derived range starts at local midnight of the current local
\* day, expressed in UTC (not at UTC midnight), and ends exactly 24 hours
\* later; at 2024-06-15T10:00+03:00 (hour 31, offset +3) it is
\* 2024-06-14T21:00Z (hour 21) to 2024-06-15T21:00Z (hour 45).
C19_TodayRangeIsLocalDayInUtc ==
    LET range == get_today_range_utc
        start == range[1]
        end == range[2]
        local == clock.utc + clock.off
    IN  /\ start.aware /\ start.off = 0
        /\ end.aware /\ end.off = 0
        /\ (start.wall + clock.off) % HoursPerDay = 0
        /\ start.wall + clock.off <= local
        /\ local < start.wall + clock.off + HoursPerDay
        /\ end.wall = start.wall + HoursPerDay
        /\ clock = [utc |-> 31, off |-> 3] => (start.wall = 21 /\ end.wall = 45)
        /\ \A c \in DOMAIN calls :
               TodayCallOf(c) =>
                   /\ Params(Call(c))["startDateFrom"].iso = start
                   /\ Params(Call(c))["startDateTo"].iso = end

\* C19 witness: at hour 31 under +3 the tool has asked for hours 21 to 45.
C19_Witness ==
    /\ clock = [utc |-> 31, off |-> 3]
    /\ \E c \in DOMAIN calls :
           /\ TodayCallOf(c)
           /\ Params(Call(c))["startDateFrom"].iso.wall = 21
           /\ Params(Call(c))["startDateTo"].iso.wall = 45

\* C20: the get_today_tasks tool issues exactly one request, the list of
\* tasks, with the range's start as from-date, its end as to-date and the
\* recurrence flag sent as false; no project and no tag filter.
C20_TodayTasksRequest ==
    \A c \in DOMAIN calls :
        LET k == Call(c)
        IN  TodayCallOf(c) =>
                /\ k.op = "list_tasks"
                /\ Len(k.reqs) = 1
                /\ k.reqs[1].method = "GET" /\ k.reqs[1].endpoint = <<"/task">>
                /\ k.reqs[1].json = PyNone
                /\ Params(k)["startDateFrom"] = isoformat(get_today_range_utc[1])
                /\ Params(k)["startDateTo"] = isoformat(get_today_range_utc[2])
                /\ "includeAllRecurrenceInstances" \in DOMAIN Params(k)
                /\ Params(k)["includeAllRecurrenceInstances"] = PyStr("false")
                /\ "projectId" \notin DOMAIN Params(k)
                /\ "tagIds" \notin DOMAIN Params(k)

\* C20 witness: a get_today_tasks call has been answered with a task list
\* and has returned it, after its one request.
C20_Witness ==
    \E c \in DOMAIN calls :
        LET k == Call(c)
        IN  /\ TodayCallOf(c) /\ k.phase = "done"
            /\ k.out = json_text(PyList(<<"a", "b">>))
            /\ Len(k.reqs) = 1
            /\ Params(k)["includeAllRecurrenceInstances"] = PyStr("false")

----------------------------------------------------------------------------
(* SpecZone: SpecClock's calls in a process whose environment may hold the *)
(* timezone-offset override, on hosts of three offsets.                    *)

\* the text of a whole number of hours, as the environment holds it
HoursText(h) == [kind |-> "str", dec |-> h]

Overrides == {PyNone, HoursText(3), HoursText(0), HoursText(0 - 5)}

HostOffsets == {0 - 5, 0, 3}

InitZone ==
    /\ tzenv \in Overrides
    /\ env = PyStr("tok")
    /\ api = PyNone
    /\ clock \in [utc : 0..MaxHour, off : HostOffsets]
    /\ remote = <<>>
    /\ calls = [c \in Sessions |-> IdleCall]

SpecZone == InitZone /\ [][NextClock]_vars

\* the local day at offset h around the clock's instant, as a pair of UTC
\* datetimes: local midnight at that offset, and the midnight after it
RangeAtOffset(h) ==
    LET local == clock.utc + h
        start == (local - (local % HoursPerDay)) - h
    IN  <<[wall |-> start, aware |-> TRUE, off |-> 0],
          [wall |-> start + HoursPerDay, aware |-> TRUE, off |-> 0]>>

\* C21: with the timezone-offset override set to h, the derived range is
\* the local day at offset h, whatever the host's own offset is, and it
\* is what the get_today_tasks tool sends.
C21_OverrideDecidesTheRange ==
    ~IsNone(tzenv) =>
        \A c \in DOMAIN calls :
            TodayCallOf(c) =>
                /\ Params(Call(c))["startDateFrom"].iso = RangeAtOffset(tzenv.dec)[1]
                /\ Params(Call(c))["startDateTo"].iso = RangeAtOffset(tzenv.dec)[2]

\* what the code derives instead: the local day at the host's offset,
\* whether or not the override is set
C21_HostOffsetDecidesTheRange ==
    /\ get_today_range_utc = RangeAtOffset(clock.off)
    /\ \A c \in DOMAIN calls :
           TodayCallOf(c) =>
               Params(Call(c))["startDateFrom"].iso = RangeAtOffset(clock.off)[1]

\* ------------------------------------------------------------------
\* The date filters of the list_tasks tool
\* ------------------------------------------------------------------

\* the instant in UTC
InUtc(wall) == isoformat([wall |-> wall, aware |-> TRUE, off |-> 0])

\* the query parameter q of a list_tasks call carries the instant the
\* caller's filter f names; an absent filter sends no parameter
FilterSent(k, f, q) ==
    LET v == Get(k.args, f, PyNone)
    IN  /\ IsNone(v) => q \notin DOMAIN Params(k)
        /\ "isoz" \in DOMAIN v => Params(k)[q] = InUtc(v.isoz)
        /\ "iso" \in DOMAIN v =>
               Params(k)[q] = InUtc(IF v.iso.aware THEN v.iso.wall - v.iso.off
                                     ELSE v.iso.wall - clock.off)

\* a list_tasks tool call of caller c that has issued its request
ListTasksCallOf(c) ==
    ToolCallOf(c) /\ calls[c].name = "list_tasks" /\ calls[c].reqs # <<>>

ListCallOf(c) ==
    calls[c].phase # "idle" /\ calls[c].op \in ListOps /\ calls[c].reqs # <<>>

\* the optional filters of list_tasks, each with its query parameter
Filters ==
    {<<"project_id", "projectId">>, <<"tag_ids", "tagIds">>,
     <<"start_date_from", "startDateFrom">>, <<"start_date_to", "startDateTo">>}

\* filter f, not passed or passed as None, "" or [], leaves no parameter q
FilterOmitted(k, f, q) ==
    ~Truthy(Get(k.kw, f, PyNone)) => q \notin DOMAIN Params(k)

\* a query value that is neither null nor the empty string
NotNullOrEmpty(v) == ~IsNone(v) /\ Truthy(v)

\* C23 as stated: in every list request a filter that was not supplied
\* or was supplied empty, and a count limit that is absent or zero, does not
\* appear in the query; no query parameter carries a null or empty value.
C23_AbsentLimitIsNotSent ==
    \A c \in DOMAIN calls :
        ListCallOf(c) =>
            /\ \A p \in Filters : FilterOmitted(Call(c), p[1], p[2])
            /\ ("max_count" \notin DOMAIN Call(c).kw \/ ~Truthy(Call(c).kw["max_count"]))
                   => "maxCount" \notin DOMAIN Params(Call(c))
            /\ \A q \in DOMAIN Params(Call(c)) : NotNullOrEmpty(Params(Call(c))[q])

\* C23, amended: as above, but the count limit is left out only when it
\* is passed as None or 0; a limit the caller did not pass takes the
\* signature's default and is sent as maxCount=100.
C23_EmptyFiltersAreNotSent ==
    \A c \in DOMAIN calls :
        ListCallOf(c) =>
            LET max_count == Get(Call(c).kw, "max_count", PyInt(100))
            IN  /\ \A p \in Filters : FilterOmitted(Call(c), p[1], p[2])
                /\ IF Truthy(max_count)
                   THEN Params(Call(c))["maxCount"] = IntStr(max_count)
                   ELSE "maxCount" \notin DOMAIN Params(Call(c))
                /\ \A q \in DOMAIN Params(Call(c)) : NotNullOrEmpty(Params(Call(c))[q])

C23_Witness ==
    \E c \in DOMAIN calls :
        /\ ListCallOf(c)
        /\ Call(c).op = "list_tasks"
        /\ "project_id" \in DOMAIN Call(c).kw
        /\ Call(c).kw["project_id"] = PyChars(<<>>)
        /\ Call(c).kw["start_date_from"] = PyStr("")
        /\ Call(c).kw["max_count"] = PyInt(0)
        /\ DOMAIN Params(Call(c)) =
               {"includeArchived", "includeRemoved", "includeAllRecurrenceInstances"}

\* ------------------------------------------------------------------
\* The client handle across calls: two callers whose tool calls overlap,
\* and an environment that changes while the server runs
\* ------------------------------------------------------------------

\* values of SINGULARITY_API_TOKEN
Tokens == {NoToken, PyStr("tok"), PyStr("tok2")}

InitHandle ==
    /\ tzenv = PyNone
    /\ env \in {NoToken, PyStr("tok")}
    /\ api = PyNone
    /\ clock = [utc |-> 31, off |-> 3]
    /\ remote = <<>>
    /\ calls = [c \in Callers |-> IdleCall]

\* the tools called while the handle is watched
HandleTools == {"list_tags", "complete_task"}

\* a tool call of caller c arrives; call_tool runs up to its first await
HandleToolCalled(c) ==
    /\ calls[c].phase = "idle"
    /\ \E name \in HandleTools : \E args \in ToolArgs(name) : CallTool(c, name, args)

\* the variable is set, changed or removed in the server's environment
EnvChanged ==
    /\ \E token \in Tokens \ {env} : env' = token
    /\ UNCHANGED <<tzenv, api, clock, remote, calls>>

\* the outstanding request of caller c ends
HandleResponded(c) ==
    /\ calls[c].phase = "awaiting"
    /\ \E http \in {[kind |-> "timeout"],
                    [kind |-> "http", status |-> 204, body |-> [kind |-> "nobody"]],
                    [kind |-> "http", status |-> 200, body |-> EmptyDict]} :
           Respond(c, http)

NextHandle ==
    \/ EnvChanged
    \/ \E c \in Callers :
           \/ HandleToolCalled(c)
           \/ HandleResponded(c)
           \/ Return(c)

SpecHandle == InitHandle /\ [][NextHandle]_vars

\* every tool call in progress that got a handle holds the one handle
OneHandleInUse ==
    \A c \in DOMAIN calls :
        (ToolCallOf(c) /\ ~IsNone(Call(c).handle)) => Call(c).handle = api

\* the handle, once created, is never replaced, whatever the environment
HandleKept == ~IsNone(api) => api' = api

\* a step of one call leaves every other call as it is
CallsApart ==
    \A c \in DOMAIN calls :
        calls'[c] # calls[c] => \A d \in DOMAIN calls \ {c} : calls'[d] = calls[d]

\* C24: across any sequence and interleaving of tool calls at most one
\* client handle is created: once it exists every later call uses that handle
\* with its token, even if the environment value changes afterwards, and a
\* call changes nothing of another call; the handle is all they share.
C24_OneHandleForAllCalls ==
    /\ []OneHandleInUse
    /\ [][HandleKept /\ CallsApart]_vars

C24_Witness ==
    /\ \A c \in DOMAIN calls : calls[c].phase = "awaiting" /\ calls[c].handle = api
    /\ api.token = PyStr("tok")
    /\ env = PyStr("tok2")
    /\ calls[1].name # calls[2].name

\* ------------------------------------------------------------------
\* The replacement remove_task_tag issues
\* ------------------------------------------------------------------

\* a remove_task_tag call of caller c that has issued its replacement
RemoveWroteOf(c) == calls[c].op = "remove_task_tag" /\ Len(calls[c].reqs) = 2

\* the tag list the replacement of call k carries
TagsSent(k) == k.reqs[2].json.fields["tags"].items

\* seq without any occurrence of x, the rest in order
RECURSIVE AllRemoved(_, _)
AllRemoved(seq, x) ==
    IF seq = <<>> THEN <<>>
    ELSE IF Head(seq) = x THEN AllRemoved(Tail(seq), x)
    ELSE <<Head(seq)>> \o AllRemoved(Tail(seq), x)

\* C25: whenever remove_task_tag issues a replacement, the replacement
\* does not contain the tag, for every tag list read (one that lists the tag
\* more than once included), and every other tag read is kept in its order.
C25_ReplacementLacksTheTag ==
    \A c \in DOMAIN calls :
        RemoveWroteOf(c) =>
            /\ ~InSeq(Call(c).kw["tag_id"].s, TagsSent(Call(c)))
            /\ TagsSent(Call(c)) = AllRemoved(TagsRead(Call(c)).items, Call(c).kw["tag_id"].s)

\* what the code does: the replacement is the list read less the first
\* occurrence of the tag, so it lacks the tag when the list read holds it once
C25_ReplacementDropsFirstOccurrence ==
    \A c \in DOMAIN calls :
        RemoveWroteOf(c) =>
            /\ TagsSent(Call(c)) = ListRemove(TagsRead(Call(c)).items, Call(c).kw["tag_id"].s)
            /\ Count(Call(c).kw["tag_id"].s, TagsRead(Call(c)).items) = 1
                   => TagsSent(Call(c)) =
                          AllRemoved(TagsRead(Call(c)).items, Call(c).kw["tag_id"].s)

\* ------------------------------------------------------------------
\* What the mark_habit tool sends
\* ------------------------------------------------------------------

\* a mark_habit tool call of caller c that has issued its request
MarkHabitCallOf(c) ==
    ToolCallOf(c) /\ calls[c].name = "mark_habit" /\ calls[c].reqs # <<>>

\* the body of the request of call k
Body(k) == k.reqs[1].json.fields

\* midnight of the current local day, as an instant in UTC
LocalMidnightInUtc ==
    LET local == clock.utc + clock.off
    IN  InUtc((local - (local % HoursPerDay)) - clock.off)

\* C26: the mark_habit tool sends progress 2 when done is omitted or
\* true and 1 when done is false, never 0 or any other value; when no date is
\* supplied it sends midnight of the current local day converted to UTC.
C26_MarkHabitSendsOneOrTwo ==
    \A c \in DOMAIN calls :
        MarkHabitCallOf(c) =>
            LET args == Call(c).args
                sent == Body(Call(c))
            IN  /\ sent["progress"] \in {PyInt(1), PyInt(2)}
                /\ ("done" \notin DOMAIN args \/ args["done"] = PyBool(TRUE))
                       => sent["progress"] = PyInt(2)
                /\ ("done" \in DOMAIN args /\ args["done"] = PyBool(FALSE))
                       => sent["progress"] = PyInt(1)
                /\ "date" \notin DOMAIN args => sent["date"] = LocalMidnightInUtc
                /\ "date" \in DOMAIN args => sent["date"] = args["date"]

C26_Witness ==
    \E c \in DOMAIN calls :
        /\ MarkHabitCallOf(c)
        /\ "done" \in DOMAIN Call(c).args
        /\ Call(c).args["done"] = PyBool(FALSE)
        /\ "date" \notin DOMAIN Call(c).args
        /\ Body(Call(c))["progress"] = PyInt(1)
        /\ clock.utc = 50
        /\ Body(Call(c))["date"] = InUtc(29)

\* ------------------------------------------------------------------
\* A tag operation whose read fails
\* ------------------------------------------------------------------

\* the read of call k has ended, and not with a task
ReadFailed(k) == k.op \in TagOps /\ k.resps # <<>> /\ ~Succeeded(k, 1)

\* a call whose read failed has ended in that failure, with the read as
\* its only request; a call that issued its replacement had read a task
WriteOnlyAfterRead ==
    \A c \in DOMAIN calls :
        LET k == Call(c)
        IN  /\ ReadFailed(k) =>
                   (k.phase = "done" /\ k.out.t = "raise" /\ Len(k.reqs) = 1)
            /\ (k.op \in TagOps /\ Len(k.reqs) = 2) =>
                   (/\ Succeeded(k, 1)
                    /\ k.reqs[1].method = "GET"
                    /\ k.reqs[2].method = "PATCH")

\* the step in which a read fails leaves the remote tag list alone, and the
\* list changes only by the replacement of a call that had read a task
FailedReadChangesNothing ==
    /\ \A c \in DOMAIN calls :
           (~ReadFailed(calls[c]) /\ ReadFailed(calls'[c])) => remote' = remote
    /\ remote' # remote =>
           \E c \in DOMAIN calls :
               /\ calls[c].phase = "awaiting"
               /\ Len(calls[c].reqs) = 2
               /\ Succeeded(calls[c], 1)
               /\ calls'[c] # calls[c]

\* C27: if the read of add_task_tag or remove_task_tag fails (error
\* status or no answer in time) the operation fails without issuing the
\* replacement: a write is issued only after a read that returned a task, so
\* the operation that failed has not changed the remote tag list.
C27_FailedReadIssuesNoWrite ==
    /\ []WriteOnlyAfterRead
    /\ [][FailedReadChangesNothing]_vars

C27_Witness ==
    \E c \in DOMAIN calls :
        /\ ReadFailed(Call(c))
        /\ Call(c).resps[1].kind = "timeout"
        /\ Call(c).phase = "done"
        /\ Len(Call(c).reqs) = 1
        /\ Call(c).op = "add_task_tag"
        /\ ~InSeq(Call(c).kw["tag_id"].s, remote)
        /\ remote # <<>>

\* ------------------------------------------------------------------
\* What the delete tools report
\* ------------------------------------------------------------------

DeleteTools == {"delete_task", "delete_project"}

\* the result of call k is an object whose status is "deleted"
DeletedReported(k) ==
    /\ k.out.form = "json"
    /\ IsDict(k.out.value)
    /\ "status" \in DOMAIN k.out.value.fields
    /\ k.out.value.fields["status"] = PyStr("deleted")

\* the one request of call k was a DELETE and it failed
DeleteFailed(k) ==
    /\ k.phase = "done"
    /\ k.resps # <<>>
    /\ k.reqs[1].method = "DELETE"
    /\ ~Succeeded(k, 1)

\* C28: the delete_task and delete_project tools report the status
\* "deleted" only when the remote DELETE succeeded; when the request fails
\* the result is an "Error: " text and never a deleted status.
C28_DeletedOnlyAfterSuccess ==
    \A c \in DOMAIN calls :
        LET k == Call(c)
        IN  (ToolCallOf(c) /\ k.name \in DeleteTools) =>
                /\ DeletedReported(k) =>
                       (/\ Len(k.reqs) = 1
                        /\ k.reqs[1].method = "DELETE"
                        /\ Succeeded(k, 1))
                /\ DeleteFailed(k) =>
                       (/\ k.out.form = "error"
                        /\ Head(k.out.text) = "Error: "
                        /\ ~DeletedReported(k))

C28_Witness ==
    \E c \in DOMAIN calls :
        LET k == Call(c)
        IN  /\ ToolCallOf(c)
            /\ k.name = "delete_project"
            /\ DeleteFailed(k)
            /\ k.resps[1].kind = "http"
            /\ k.resps[1].status = 500
            /\ k.out.form = "error"

\* ------------------------------------------------------------------
\* Adding a tag and removing it again
\* ------------------------------------------------------------------

\* the first operation of caller c, an add_task_tag, has written and
\* returned, and nobody else has written
AddedAlone(c) ==
    /\ Call(c).phase = "done" /\ Call(c).op = "add_task_tag"
    /\ Call(c).out.t = "return"
    /\ Call(c).nops = 0
    /\ Len(Call(c).reqs) = 2
    /\ NoOtherWriter(c)

\* caller c added a tag that was not in the list and then removed it, both
\* calls returned, and nobody else has written
AddedThenRemoved(c) ==
    /\ Call(c).phase = "done" /\ Call(c).op = "remove_task_tag"
    /\ Call(c).out.t = "return"
    /\ Call(c).nops = 1
    /\ Call(c).prev # <<>>
    /\ Call(c).prev[1].op = "add_task_tag"
    /\ Call(c).prev[1].tag = Call(c).kw["tag_id"]
    /\ Call(c).prev[1].returned /\ Call(c).prev[1].wrote
    /\ NoOtherWriter(c)

\* seq without its last element
Front(seq) == SubSeq(seq, 1, Len(seq) - 1)

Tool(name, required) == [name |-> name, required |-> required]

\* a variant of the catalog that does not list get_today_tasks
TOOLS_without_today ==
    <<Tool("list_tasks", {}), Tool("get_task", {"task_id"}), Tool("create_task", {"title"}),
      Tool("update_task", {"task_id"}), Tool("complete_task", {"task_id"}),
      Tool("delete_task", {"task_id"}), Tool("list_projects", {}),
      Tool("create_project", {"title"}), Tool("delete_project", {"project_id"}),
      Tool("list_habits", {}), Tool("create_habit", {"title"}),
      Tool("mark_habit", {"habit_id"}), Tool("list_tags", {}), Tool("create_tag", {"title"}),
      Tool("add_checklist_item", {"task_id", "title"})>>

\* the catalog: each tool's name and the arguments its schema requires
TOOLS ==
    <<Tool("list_tasks", {}), Tool("get_task", {"task_id"}), Tool("create_task", {"title"}),
      Tool("update_task", {"task_id"}), Tool("complete_task", {"task_id"}),
      Tool("delete_task", {"task_id"}), Tool("list_projects", {}),
      Tool("create_project", {"title"}), Tool("delete_project", {"project_id"}),
      Tool("list_habits", {}), Tool("create_habit", {"title"}),
      Tool("mark_habit", {"habit_id"}), Tool("list_tags", {}), Tool("create_tag", {"title"}),
      Tool("add_checklist_item", {"task_id", "title"}), Tool("get_today_tasks", {})>>

list_tools == TOOLS

\* the names list_tools returns
CatalogNames == {list_tools[i].name : i \in DOMAIN list_tools}

\* tool t of the catalog is called by call k with the arguments it requires
CalledAsListed(k, t) == k.name = t.name /\ t.required \subseteq DOMAIN k.args

\* the result of call k is the dispatcher's unknown-tool error
UnknownToolError(k) ==
    k.out.form = "error" /\ k.out.text = <<"Error: ">> \o unknown_tool(k.name).msg

\* tool call k has reached the dispatcher, which took one of its branches
Handled(k) == ~IsNone(k.handle) /\ ~UnknownToolError(k)

\* C30: the catalog and the dispatcher agree.  A call of a tool that
\* list_tools returns, with its required arguments, never ends in the
\* unknown-tool error (it reaches a client operation, bar a date filter that
\* is no date), and every name the dispatcher handles is in the catalog.
C30_CatalogAndDispatcherAgree ==
    \A c \in DOMAIN calls :
        LET k == Call(c)
        IN  ToolCallOf(c) =>
                /\ \A i \in DOMAIN list_tools :
                       (CalledAsListed(k, list_tools[i]) /\ ~IsNone(k.handle)) =>
                           /\ ~UnknownToolError(k)
                           /\ k.op = "" => (k.name = "list_tasks" /\ k.out.form = "error")
                /\ Handled(k) => k.name \in CatalogNames
                /\ (~IsNone(k.handle) /\ k.name \notin CatalogNames) => UnknownToolError(k)

C30_Witness ==
    \E c \in DOMAIN calls :
        LET k == Call(c)
        IN  /\ ToolCallOf(c)
            /\ CalledAsListed(k, list_tools[Len(list_tools)])
            /\ Handled(k)
            /\ k.phase = "awaiting"
            /\ k.op = "list_tasks"

====
